---- MODULE Spec2Model ----
(***************************************************************************)
(* CargoX stowage planner (orionop/cargox, backend/).                      *)
(*                                                                         *)
(* The store is the two tables of backend/models.py: `containers` and      *)
(* `items`, both kept in insertion order (the order an unordered query     *)
(* returns them in), plus the action log.  Every endpoint or service       *)
(* method is one atomic action: the server handles a request from its      *)
(* first query to its last commit.  The handlers are coroutines of one     *)
(* event loop; `tasks` holds those in flight where a claim is about two    *)
(* of them at once, and is empty everywhere else.                          *)
(*                                                                         *)
(* Lengths are integers in units of 1/30 m, so that the 0.1 m search step  *)
(* (3 units) and the thirds of the sparse lattice are whole numbers for    *)
(* every dimension that is a multiple of 0.1 m.  Dates are day numbers.    *)
(* A nullable column that is NULL holds None.                              *)
(***************************************************************************)
EXTENDS Integers, Sequences, FiniteSets, TLC

VARIABLES
    containers,   \* Seq of container rows (models.Container)
    items,        \* Seq of item rows (models.Item); the item id is the row index
    native,       \* ghost: the dimensions each item was last imported with
    log,          \* number of rows of log_entries
    today,        \* date.today()
    last,         \* what the last request returned
    tasks         \* the request handlers in flight on the event loop, and where each is

vars == <<containers, items, native, log, today, last, tasks>>

----------------------------------------------------------------------------
(* Values *)

None == -1
NoContainer == "none"

Min2(a, b) == IF a <= b THEN a ELSE b
Max2(a, b) == IF a >= b THEN a ELSE b
Min3(a, b, c) == Min2(a, Min2(b, c))
Max3(a, b, c) == Max2(a, Max2(b, c))

Range(s) == {s[k] : k \in DOMAIN s}

RECURSIVE SumSeq(_)
SumSeq(s) == IF s = <<>> THEN 0 ELSE Head(s) + SumSeq(Tail(s))

\* min(seq, key=...): index of the first element with the least key
FirstMinIdx(keys) ==
    CHOOSE k \in DOMAIN keys :
        \A j \in DOMAIN keys : keys[k] < keys[j] \/ (keys[k] = keys[j] /\ k <= j)

ContainerRow(id, w, h, d, cap, ctype, zone) ==
    [id |-> id, width |-> w, height |-> h, depth |-> d, capacity |-> cap,
     container_type |-> ctype, zone |-> zone]

\* models.Item as import_items_to_db creates it
NewItem(dims, weight, priority, pzone, expiry, limit) ==
    [width |-> dims[1], height |-> dims[2], depth |-> dims[3],
     weight |-> weight, priority |-> priority, preferred_zone |-> pzone,
     expiry_date |-> expiry, usage_limit |-> limit, usage_count |-> 0,
     is_placed |-> FALSE, container_id |-> NoContainer,
     position_x |-> None, position_y |-> None, position_z |-> None,
     is_waste |-> FALSE, last_retrieved |-> None]

ItemIds == DOMAIN items

\* Container.id.startswith("WST")
StartsWithWST(cid) == cid \in {"WST1", "WST2"}

ContainerIdx(cid) == CHOOSE k \in DOMAIN containers : containers[k].id = cid

\* db.query(Item).filter(Item.container_id == cid, Item.is_placed == True), in row order
PlacedIn(its, cid) ==
    LET RECURSIVE Go(_)
        Go(k) == IF k > Len(its) THEN <<>>
                 ELSE IF its[k].is_placed /\ its[k].container_id = cid
                      THEN <<k>> \o Go(k + 1) ELSE Go(k + 1)
    IN Go(1)

CountIn(its, cid) == Len(PlacedIn(its, cid))

Pos(it) == <<it.position_x, it.position_y, it.position_z>>
Dims(it) == <<it.width, it.height, it.depth>>

----------------------------------------------------------------------------
(* Geometry: PlacementService._check_collision and the position search *)

\* 0.1 m and 0.25 m search steps, 10 m "large container", the 20-sample cap,
\* the 10-sample limit of the dense search, the x50 unit test and the /100 rescale
StepSize == 3
MaxSteps == 20
DenseSteps == 10
UnitRatio == 50
UnitScale == 100
LargeAvg == 300

\* _check_collision(pos1, dim1, pos2, dim2)
CheckCollision(pos1, dim1, pos2, dim2) ==
    LET no_collision_x == pos1[1] + dim1[1] <= pos2[1] \/ pos2[1] + dim2[1] <= pos1[1]
        no_collision_y == pos1[2] + dim1[2] <= pos2[2] \/ pos2[2] + dim2[2] <= pos1[2]
        no_collision_z == pos1[3] + dim1[3] <= pos2[3] \/ pos2[3] + dim2[3] <= pos1[3]
    IN ~(no_collision_x \/ no_collision_y \/ no_collision_z)

\* A rotation list whose last entry repeats the height in place of the width
GetItemRotationsRepeating(it) ==
    LET w == it.width  h == it.height  d == it.depth
    IN << <<w, h, d>>, <<w, d, h>>, <<h, w, d>>, <<h, d, w>>, <<d, w, h>>, <<d, h, h>> >>

\* _get_item_rotations: itertools.permutations([width, height, depth])
GetItemRotations(it) ==
    LET w == it.width  h == it.height  d == it.depth
    IN << <<w, h, d>>, <<w, d, h>>, <<h, w, d>>, <<h, d, w>>, <<d, w, h>>, <<d, h, w>> >>

\* int(max / step_size) + 1, capped at 20; the step is 0.25 m for a container
\* whose mean dimension exceeds 10 m, else 0.1 m
NumSteps(mx, large) ==
    Min2((IF large THEN (2 * mx) \div 15 ELSE mx \div StepSize) + 1, MaxSteps)

\* (k / max(1, steps - 1)) * max
GridPos(k, steps, mx) == (k * mx) \div Max2(1, steps - 1)

\* The dense search (placement.py:317-344).  The collision test and the append
\* sit in the body of the z loop, after the y and x loops have run to their
\* last value: one candidate per z, at the last x and the last y.
DensePositions(mx, my, mz, xs, ys, zs) ==
    [k \in 1..zs |-> <<GridPos(xs - 1, xs, mx), GridPos(ys - 1, ys, my), GridPos(k - 1, zs, mz)>>]

\* The sparse lattice (placement.py:346-366): x outermost, z innermost
Lattice(mx) == IF mx > 0 THEN <<0, mx \div 3, (mx * 2) \div 3, mx>> ELSE <<0>>

SparsePositions(mx, my, mz) ==
    LET gx == Lattice(mx)  gy == Lattice(my)  gz == Lattice(mz)
        ny == Len(gy)  nz == Len(gz)
    IN [k \in 1..(Len(gx) * ny * nz) |->
            <<gx[((k - 1) \div (ny * nz)) + 1],
              gy[(((k - 1) \div nz) % ny) + 1],
              gz[((k - 1) % nz) + 1]>>]

\* _calculate_orientation_score, times 9000 (lower is better)
OrientationScore(o, p, cw, ch, cd) ==
    LET touch_area ==
            (IF p[1] = 0 THEN o[2] * o[3] ELSE 0)
          + (IF p[2] = 0 THEN o[1] * o[3] ELSE 0)
          + (IF p[3] = 0 THEN o[1] * o[2] ELSE 0)
          + (IF p[1] + o[1] = cw THEN o[2] * o[3] ELSE 0)
          + (IF p[2] + o[2] = ch THEN o[1] * o[3] ELSE 0)
          + (IF p[3] + o[3] = cd THEN o[1] * o[2] ELSE 0)
    IN 0 - (8 * touch_area) - (60 * p[3])

NotFound == [found |-> FALSE, position |-> <<None, None, None>>, orientation |-> <<0, 0, 0>>]

\* The candidate positions of an orientation with slack (mx, my, mz) and
\* (xs, ys, zs) samples per axis: dense when no axis has more than 10 samples
Candidates(mx, my, mz, xs, ys, zs) ==
    IF xs <= DenseSteps /\ ys <= DenseSteps /\ zs <= DenseSteps
    THEN DensePositions(mx, my, mz, xs, ys, zs)
    ELSE SparsePositions(mx, my, mz)

\* valid_positions.sort(key=z, reverse=not prioritize_access); valid_positions[0]
FirstPosition(positions, o, prioritize_access) ==
    IF positions = <<>> THEN NotFound
    ELSE [found |-> TRUE,
          position |-> positions[FirstMinIdx([k \in DOMAIN positions |->
                          IF prioritize_access THEN positions[k][3] ELSE 0 - positions[k][3]])],
          orientation |-> o]

IsFree(p, o, existing) ==
    \A k \in DOMAIN existing : ~CheckCollision(p, o, Pos(existing[k]), Dims(existing[k]))

\* The best free position of one orientation with slack (mx, my, mz)
BestPositionIn(o, mx, my, mz, large, existing, prioritize_access) ==
    FirstPosition(
        SelectSeq(Candidates(mx, my, mz, NumSteps(mx, large), NumSteps(my, large),
                             NumSteps(mz, large)),
                  LAMBDA p : IsFree(p, o, existing)),
        o, prioritize_access)

\* The best free position of one orientation in a container of (cw, ch, cd):
\* NotFound when the orientation does not fit or every candidate collides
BestPositionFor(o, cw, ch, cd, large, existing, prioritize_access) ==
    IF o[1] > cw \/ o[2] > ch \/ o[3] > cd THEN NotFound
    ELSE BestPositionIn(o, Max2(0, cw - o[1]), Max2(0, ch - o[2]), Max2(0, cd - o[3]),
                        large, existing, prioritize_access)

\* The orientation kept among those that have a position: the first with the
\* lowest z for prioritize_access, else the first with the lowest score
BestOrientation(valid, cw, ch, cd, prioritize_access) ==
    IF valid = <<>> THEN NotFound
    ELSE valid[FirstMinIdx([k \in DOMAIN valid |->
                  IF prioritize_access THEN valid[k].position[3]
                  ELSE OrientationScore(valid[k].orientation, valid[k].position, cw, ch, cd)])]

\* The search in a container whose dimensions, as the search reads them, are (cw, ch, cd)
FindPositionIn(rot, cw, ch, cd, large, existing, prioritize_access) ==
    BestOrientation(
        SelectSeq([k \in 1..6 |->
                      BestPositionFor(rot[k], cw, ch, cd, large, existing, prioritize_access)],
                  LAMBDA b : b.found),
        cw, ch, cd, prioritize_access)

\* The container's dimensions as the search reads them: divided by 100 when
\* their mean exceeds 50 times the item's
SearchDims(c, conversion_needed) ==
    IF conversion_needed
    THEN <<c.width \div UnitScale, c.height \div UnitScale, c.depth \div UnitScale>>
    ELSE <<c.width, c.height, c.depth>>

FindPositionSized(sd, c, it, existing, prioritize_access) ==
    FindPositionIn(GetItemRotations(it), sd[1], sd[2], sd[3],
                   c.width + c.height + c.depth > 3 * LargeAvg,
                   existing, prioritize_access)

\* _find_position_with_rotation(container, item, existing_items, prioritize_access);
\* `existing` is a sequence of item rows
FindPositionWithRotation(c, it, existing, prioritize_access) ==
    IF Len(existing) >= c.capacity THEN NotFound
    ELSE FindPositionSized(
             SearchDims(c, c.width + c.height + c.depth
                           > (it.width + it.height + it.depth) * UnitRatio),
             c, it, existing, prioritize_access)

----------------------------------------------------------------------------
(* PlacementService.place_items *)

NoZone == "none"
AccessPriority == 75

\* _calculate_volume_efficiency, times 2: volume * (1 + max_dim / min_dim); the
\* quotient volume / min_dim is the product of the other two dimensions
VolumeEfficiency(it) ==
    LET mn == Min3(it.width, it.height, it.depth)
        mx == Max3(it.width, it.height, it.depth)
        volume == it.width * it.height * it.depth
    IN IF mn > 0 THEN (volume \div mn) * (mn + mx) ELSE volume * 101

\* The sort key without its priority component
ItemBeforeByVolume(a, b) == VolumeEfficiency(a) < VolumeEfficiency(b)

\* key=lambda i: (-i.priority, self._calculate_volume_efficiency(i))
ItemBefore(a, b) ==
    \/ a.priority > b.priority
    \/ a.priority = b.priority /\ VolumeEfficiency(a) < VolumeEfficiency(b)

\* key=lambda c: (container_item_counts[c.id] / max(1, c.capacity), -(c.width * c.height * c.depth))
ContainerBefore(counts, j, k) ==
    LET a == containers[j]  b == containers[k]
        fa == counts[j] * Max2(1, b.capacity)
        fb == counts[k] * Max2(1, a.capacity)
    IN \/ fa < fb
       \/ fa = fb /\ a.width * a.height * a.depth > b.width * b.height * b.depth

\* _place_item: the capacity re-check counts the rows of the database, which a
\* session opened with autoflush=False (database.py:68) does not yet hold the
\* run's own placements in; then the item takes the orientation and the position
PlaceItem(it, c, position, orientation) ==
    [it EXCEPT !.width = orientation[1], !.height = orientation[2], !.depth = orientation[3],
               !.container_id = c.id,
               !.position_x = position[1], !.position_y = position[2],
               !.position_z = position[3], !.is_placed = TRUE]

PlaceItemAllowed(db, c) == ~(CountIn(db, c.id) >= c.capacity)

\* The item takes the container, the position and the orientation found for
\* it, unless _place_item refuses
TryPlace(st, db, i, ci, r) ==
    IF r.found /\ PlaceItemAllowed(db, containers[ci])
    THEN [st EXCEPT !.its[i] = PlaceItem(st.its[i], containers[ci], r.position, r.orientation),
                    !.counts[ci] = @ + 1,
                    !.ok = TRUE]
    ELSE [st EXCEPT !.ok = FALSE]

Rows(its, idx) == [n \in DOMAIN idx |-> its[idx[n]]]

\* existing_items = [i for i in placed_items if i.container_id == container.id]:
\* the items this run has placed in the container so far
InRun(st, cid) == Rows(st.its, SelectSeq(st.placed, LAMBDA j : st.its[j].container_id = cid))

TryFit(st, db, i, ci, existing_items) ==
    IF Len(existing_items) >= containers[ci].capacity
    THEN [st EXCEPT !.counts[ci] = Len(existing_items), !.ok = FALSE]
    ELSE TryPlace(st, db, i, ci,
                  FindPositionWithRotation(containers[ci], st.its[i], existing_items,
                                           st.its[i].priority > AccessPriority))

\* One pass of the loop of _try_place_in_containers, for container ci.
\* st = [its, counts, placed, byZone, ok]; ok says the item was placed.
TryContainer(st, db, i, ci) ==
    IF StartsWithWST(containers[ci].id) /\ ~st.its[i].is_waste THEN [st EXCEPT !.ok = FALSE]
    ELSE IF st.counts[ci] >= containers[ci].capacity THEN [st EXCEPT !.ok = FALSE]
    ELSE TryFit(st, db, i, ci, InRun(st, containers[ci].id))

\* _try_place_in_containers over the already sorted list `order`, from index k.
RECURSIVE TryLoop(_, _, _, _, _)
TryLoop(st, db, i, order, k) ==
    IF k > Len(order) THEN [st EXCEPT !.ok = FALSE]
    ELSE LET s == TryContainer(st, db, i, order[k])
         IN IF s.ok THEN s ELSE TryLoop(s, db, i, order, k + 1)

\* containers.sort(key=...): a stable sort of container indices
RECURSIVE InsertContainer(_, _, _)
InsertContainer(counts, sorted, e) ==
    IF sorted = <<>> THEN <<e>>
    ELSE IF ContainerBefore(counts, e, Head(sorted)) THEN <<e>> \o sorted
    ELSE <<Head(sorted)>> \o InsertContainer(counts, Tail(sorted), e)

RECURSIVE SortContainers(_, _)
SortContainers(counts, list) ==
    IF list = <<>> THEN <<>>
    ELSE InsertContainer(counts, SortContainers(counts, SubSeq(list, 1, Len(list) - 1)),
                         list[Len(list)])

Zones == {containers[k].zone : k \in DOMAIN containers}
AllContainers == [k \in DOMAIN containers |-> k]

\* The preferred zone's list is sorted in place, then tried
TryZone(st, db, i, z, plist) ==
    TryLoop([st EXCEPT !.byZone[z] = plist], db, i, plist, 1)

PreferredPass(st, db, i, z) ==
    IF z # NoZone /\ z \in Zones
    THEN TryZone(st, db, i, z, SortContainers(st.counts, st.byZone[z]))
    ELSE [st EXCEPT !.ok = FALSE]

\* ... then every container, sorted afresh
FallbackPass(s1, db, i) ==
    IF s1.ok THEN s1 ELSE TryLoop(s1, db, i, SortContainers(s1.counts, AllContainers), 1)

Placed(s2, i) == IF s2.ok THEN [s2 EXCEPT !.placed = Append(@, i)] ELSE s2

\* One iteration of the loop over sorted_items (placement.py:77-103)
PlaceOne(st, db, i) ==
    Placed(FallbackPass(PreferredPass(st, db, i, st.its[i].preferred_zone), db, i), i)

RECURSIVE PlaceLoop(_, _, _, _)
PlaceLoop(st, db, sorted_items, k) ==
    IF k > Len(sorted_items) THEN st
    ELSE PlaceLoop(PlaceOne(st, db, sorted_items[k]), db, sorted_items, k + 1)

\* The reset that leaves the container id behind
ClearPlacementPartly(it) ==
    [it EXCEPT !.position_x = None, !.position_y = None, !.position_z = None,
               !.is_placed = FALSE]

\* _clear_existing_placements / utils.clear_placements / the reset of place_items
ClearPlacement(it) ==
    [it EXCEPT !.container_id = NoContainer, !.position_x = None, !.position_y = None,
               !.position_z = None, !.is_placed = FALSE]

ClearAll(its) == [k \in DOMAIN its |-> ClearPlacement(its[k])]

\* The state a run starts in: counters at zero, nothing placed by this run
RunStart(db) ==
    [its |-> db,
     counts |-> [k \in DOMAIN containers |-> 0],
     placed |-> <<>>,
     byZone |-> [z \in Zones |-> SelectSeq(AllContainers, LAMBDA k : containers[k].zone = z)],
     ok |-> FALSE]

RunResult(fin, sorted_items) ==
    [its |-> fin.its, placed |-> fin.placed, todo |-> sorted_items]

\* The run over the items `todo` of the rows db
RunOver(db, sorted_items) ==
    RunResult(PlaceLoop(RunStart(db), db, sorted_items, 1), sorted_items)

\* sorted(items, key=...): a stable sort of item ids
RECURSIVE InsertItem(_, _, _)
InsertItem(db, sorted, e) ==
    IF sorted = <<>> THEN <<e>>
    ELSE IF ItemBefore(db[e], db[Head(sorted)]) THEN <<e>> \o sorted
    ELSE <<Head(sorted)>> \o InsertItem(db, Tail(sorted), e)

RECURSIVE SortItems(_, _)
SortItems(db, todo) ==
    IF todo = <<>> THEN <<>>
    ELSE InsertItem(db, SortItems(db, SubSeq(todo, 1, Len(todo) - 1)), todo[Len(todo)])

Unplaced(its) == SelectSeq([k \in DOMAIN its |-> k], LAMBDA k : ~its[k].is_placed)

\* With nothing unplaced every placement is cleared and every item placed anew
RunFrom(its, unplaced) ==
    IF unplaced = <<>>
    THEN RunOver(ClearAll(its), SortItems(its, [k \in DOMAIN its |-> k]))
    ELSE RunOver(its, SortItems(its, unplaced))

\* place_items(items=None): the item rows after the run, and the ids it placed
PlaceItemsRun(its) ==
    IF containers = <<>> \/ its = <<>>
    THEN [its |-> its, placed |-> <<>>, todo |-> <<>>]
    ELSE RunFrom(its, Unplaced(its))

----------------------------------------------------------------------------
(* Requests.  Every endpoint is one atomic step: it reads the store, writes
   it, commits and appends its log row. *)

MaxItems == 3      \* rows the items table may hold
MaxLog == 6        \* logged requests explored from the empty log

DefaultPriority == 50

\* What a request hands back: the endpoint, the item it was about, whether it
\* succeeded, the item ids it lists and the total it reports.
Result(op, item, ok, ids, total) ==
    [op |-> op, item |-> item, ok |-> ok, ids |-> ids, total |-> total]

NoResult == Result("none", 0, FALSE, <<>>, 0)

\* One data row of an items CSV as parse_items_csv returns it; None and NoZone
\* stand for an optional column left empty, whose key is then absent.
CsvRow(dims, weight, priority, pzone, expiry, limit) ==
    [dims |-> dims, weight |-> weight, priority |-> priority,
     preferred_zone |-> pzone, expiry_date |-> expiry, usage_limit |-> limit]

\* The row replaces the item, every column it does not name back to its default
ReplaceItem(it, row) ==
    NewItem(row.dims, row.weight,
            IF row.priority = None THEN DefaultPriority ELSE row.priority,
            row.preferred_zone, row.expiry_date, row.usage_limit)

\* import_items_to_db, existing id: setattr for every key of the row, the
\* placement fields forced to unplaced; every other column keeps its value.
UpdateItem(it, row) ==
    [it EXCEPT !.width = row.dims[1], !.height = row.dims[2], !.depth = row.dims[3],
               !.weight = row.weight,
               !.priority = IF row.priority = None THEN @ ELSE row.priority,
               !.preferred_zone = IF row.preferred_zone = NoZone THEN @ ELSE row.preferred_zone,
               !.expiry_date = IF row.expiry_date = None THEN @ ELSE row.expiry_date,
               !.usage_limit = IF row.usage_limit = None THEN @ ELSE row.usage_limit,
               !.is_placed = FALSE, !.container_id = NoContainer,
               !.position_x = None, !.position_y = None, !.position_z = None]

\* import_items_to_db, new id: Item(**row) with the column defaults.
CreateItem(row) ==
    NewItem(row.dims, row.weight,
            IF row.priority = None THEN DefaultPriority ELSE row.priority,
            row.preferred_zone, row.expiry_date, row.usage_limit)

ImportItemsToDb(its, i, row) ==
    IF i \in DOMAIN its THEN [its EXCEPT ![i] = UpdateItem(its[i], row)]
    ELSE Append(its, CreateItem(row))

\* POST /api/import/items with a one-row CSV for item id i; the table holds
\* at most max rows.
ImportItems(rows, max) ==
    \E i \in 1..Min2(Len(items) + 1, max), row \in rows :
        /\ log < MaxLog
        /\ items' = ImportItemsToDb(items, i, row)
        /\ native' = IF i \in DOMAIN native THEN [native EXCEPT ![i] = row.dims]
                     ELSE Append(native, row.dims)
        /\ log' = log + 1
        /\ last' = Result("import", i, TRUE, <<>>, 1)
        /\ UNCHANGED <<containers, today, tasks>>

\* POST /place-items
Planned(op, run) ==
    /\ log < MaxLog
    /\ items' = run.its
    /\ log' = log + 1
    /\ last' = [op |-> op, item |-> 0, ok |-> TRUE, ids |-> run.placed,
                total |-> Len(run.placed), attempted |-> run.todo]
    /\ UNCHANGED <<containers, native, today, tasks>>

PlaceItems == Planned("place_items", PlaceItemsRun(items))

\* POST /repack: clear_placements, then place_items.
Repack == Planned("repack", PlaceItemsRun(ClearAll(items)))

\* POST /retrieve/{item_id}: count one use and take the item out of its container.
UseItemRow(it) ==
    LET counted == it.usage_limit # None
        count == IF counted THEN it.usage_count + 1 ELSE it.usage_count
    IN [ClearPlacement(it) EXCEPT
            !.usage_count = count,
            !.is_waste = IF counted /\ it.usage_limit > 0 /\ count >= it.usage_limit
                         THEN TRUE ELSE @,
            !.last_retrieved = today]

UseItem ==
    \E i \in ItemIds :
        /\ log < MaxLog
        /\ items' = [items EXCEPT ![i] = UseItemRow(items[i])]
        /\ log' = log + 1
        /\ last' = Result("use", i, TRUE, <<>>, items'[i].usage_count)
        /\ UNCHANGED <<containers, native, today, tasks>>

----------------------------------------------------------------------------
(* The planner: imports, planner runs and uses. *)

PlannerFleet ==
    << ContainerRow("A1", 60, 30, 30, 2, "storage", "A"),
       ContainerRow("WST1", 30, 30, 30, 1, "waste", "Waste"),
       ContainerRow("W2", 30, 30, 15, 1, "waste", "Waste") >>

PlannerRows ==
    { CsvRow(d, 1, None, NoZone, None, l) :
        d \in { <<30, 30, 30>>, <<30, 15, 15>> }, l \in { None, 1 } }

Init ==
    /\ containers = PlannerFleet
    /\ items = <<>>
    /\ native = <<>>
    /\ log = 0
    /\ today = 0
    /\ tasks = <<>>
    /\ last = NoResult

ImportPlanner == ImportItems(PlannerRows, MaxItems)

Next == ImportPlanner \/ PlaceItems \/ Repack \/ UseItem

Spec == Init /\ [][Next]_vars

----------------------------------------------------------------------------
(* Claims about the planner *)

ContainerOf(it) == containers[ContainerIdx(it.container_id)]

Overlap(a, b) == CheckCollision(Pos(a), Dims(a), Pos(b), Dims(b))

SameContainer(a, b) ==
    a.is_placed /\ b.is_placed /\ a.container_id = b.container_id

\* C1: after any sequence of imports, planner runs (place_items, repack) and
\* uses, no two items placed in the same container have overlapping boxes
\* (open intervals, stored dimensions).
C1_NoOverlap ==
    \A i, j \in ItemIds :
        i < j /\ SameContainer(items[i], items[j]) => ~Overlap(items[i], items[j])

\* C2: after any sequence of imports, planner runs and uses, no container
\* holds more placed items than its capacity.
C2_WithinCapacity ==
    \A k \in DOMAIN containers : CountIn(items, containers[k].id) <= containers[k].capacity

KindRespected(it) ==
    /\ ContainerOf(it).container_type = "waste" => it.is_waste
    /\ ContainerOf(it).container_type = "storage" => ~it.is_waste

\* C5: every item a run of place_items has just placed is in a container of
\* its kind: a non-waste item never in a container of type waste, a waste
\* item never in a container of type storage.
C5_KindRespected ==
    last.op \in {"place_items", "repack"} =>
        \A n \in DOMAIN last.ids : KindRespected(items[last.ids[n]])

\* C6: the planner has just run; running the same operation again on the
\* unchanged store leaves every item's container, position and stored
\* orientation, and the set of unplaced items, as they are.
C6_Idempotent ==
    /\ last.op = "place_items" => PlaceItemsRun(items).its = items
    /\ last.op = "repack" => PlaceItemsRun(ClearAll(items)).its = items

----------------------------------------------------------------------------
(* The manual endpoints: POST /place and POST /api/place *)

AutoStep == 15      \* step = 0.5

\* position + size > limit, or a negative position: the request is refused
OutOfBounds(it, c, p) ==
    \/ p[1] < 0 \/ p[1] + it.width > c.width
    \/ p[2] < 0 \/ p[2] + it.height > c.height
    \/ p[3] < 0 \/ p[3] + it.depth > c.depth

ManualPlace(it, c, p) ==
    [it EXCEPT !.container_id = c.id, !.position_x = p[1], !.position_y = p[2],
               !.position_z = p[3], !.is_placed = TRUE]

\* A request that changes nothing and logs nothing
Refused(op, i) ==
    /\ last' = Result(op, i, FALSE, <<>>, 0)
    /\ UNCHANGED <<containers, items, native, log, today, tasks>>

Accepted(op, i, it) ==
    /\ log < MaxLog
    /\ items' = [items EXCEPT ![i] = it]
    /\ log' = log + 1
    /\ last' = Result(op, i, TRUE, <<>>, 1)
    /\ UNCHANGED <<containers, native, today, tasks>>

\* POST /place: 404 for an unknown item or container, 400 for a position out
\* of the container, else the item is placed where the request says.
PlaceRequest(i, ci, p) ==
    IF i \notin ItemIds \/ ci \notin DOMAIN containers THEN Refused("place", i)
    ELSE IF OutOfBounds(items[i], containers[ci], p) THEN Refused("place", i)
    ELSE Accepted("place", i, ManualPlace(items[i], containers[ci], p))

\* The collision test of the search of /api/place, against the placed item o
Occupied(it, p, o) ==
    ~(\/ p[1] + it.width <= o.position_x
      \/ p[1] >= o.position_x + o.width
      \/ p[2] + it.height <= o.position_y
      \/ p[2] >= o.position_y + o.height
      \/ p[3] + it.depth <= o.position_z
      \/ p[3] >= o.position_z + o.depth)

FreeAt(it, p, occupied_spaces) ==
    \A n \in DOMAIN occupied_spaces : ~Occupied(it, p, occupied_spaces[n])

\* The positions one level z of the search visits, x outermost, in steps of 0.5
LevelPositions(it, c, z) ==
    LET nx == IF it.width <= c.width THEN (c.width - it.width) \div AutoStep + 1 ELSE 0
        ny == IF it.height <= c.height THEN (c.height - it.height) \div AutoStep + 1 ELSE 0
    IN [k \in 1..(nx * ny) |-> <<((k - 1) \div ny) * AutoStep, ((k - 1) % ny) * AutoStep, z>>]

\* The levels above the floor: z = 0.5, 1.0, ... while z + depth <= container depth
UpperLevels(it, c) ==
    IF AutoStep + it.depth <= c.depth
    THEN [k \in 1..((c.depth - it.depth) \div AutoStep) |-> k * AutoStep]
    ELSE <<>>

RECURSIVE Flatten(_)
Flatten(ss) == IF ss = <<>> THEN <<>> ELSE Head(ss) \o Flatten(Tail(ss))

\* The search order: the floor level, whatever the item's depth, then the
\* upper levels
SearchOrder(it, c, levels) ==
    LevelPositions(it, c, 0) \o Flatten([k \in DOMAIN levels |-> LevelPositions(it, c, levels[k])])

FirstOf(s) == IF s = <<>> THEN <<None, None, None>> ELSE Head(s)

AutoPosition(it, c, occupied_spaces) ==
    FirstOf(SelectSeq(SearchOrder(it, c, UpperLevels(it, c)),
                      LAMBDA p : FreeAt(it, p, occupied_spaces)))

\* The placement of /api/place: at the position the search finds when a
\* coordinate is negative, else at a position inside the container
ApiPlaceAt(i, ci, p, auto_calculate) ==
    IF p = <<None, None, None>> THEN Refused("api_place", i)
    ELSE IF ~auto_calculate /\ OutOfBounds(items[i], containers[ci], p) THEN Refused("api_place", i)
    ELSE Accepted("api_place", i, ManualPlace(items[i], containers[ci], p))

\* POST /api/place
ApiPlaceRequest(i, ci, p) ==
    IF i \notin ItemIds \/ ci \notin DOMAIN containers THEN Refused("api_place", i)
    ELSE IF /\ CountIn(items, containers[ci].id) >= containers[ci].capacity
            /\ items[i].container_id # containers[ci].id
         THEN Refused("api_place", i)
    ELSE IF p[1] < 0 \/ p[2] < 0 \/ p[3] < 0
         THEN ApiPlaceAt(i, ci, AutoPosition(items[i], containers[ci],
                                             Rows(items, PlacedIn(items, containers[ci].id))),
                         TRUE)
    ELSE ApiPlaceAt(i, ci, p, FALSE)

ManualItems == 2

ManualRows == { CsvRow(d, 1, None, NoZone, None, None) : d \in { <<30, 30, 30>>, <<30, 15, 15>> } }

ManualPositions == { <<None, None, None>>, <<0, 0, 0>>, <<15, 0, 0>>, <<0, 0, 15>>, <<30, 0, 15>> }

ImportManual == ImportItems(ManualRows, ManualItems)

Place ==
    \E i \in 0..Len(items), ci \in DOMAIN containers, p \in ManualPositions :
        PlaceRequest(i, ci, p)

ApiPlace ==
    \E i \in 0..Len(items), ci \in DOMAIN containers, p \in ManualPositions :
        ApiPlaceRequest(i, ci, p)

NextManual == ImportManual \/ PlaceItems \/ Place \/ ApiPlace

SpecManual == Init /\ [][NextManual]_vars

Inside(it) ==
    /\ 0 <= it.position_x /\ it.position_x + it.width <= ContainerOf(it).width
    /\ 0 <= it.position_y /\ it.position_y + it.height <= ContainerOf(it).height
    /\ 0 <= it.position_z /\ it.position_z + it.depth <= ContainerOf(it).depth

\* C3: every placement place_items has just written, and every placement
\* POST /place or POST /api/place has just accepted, lies fully inside its
\* container, with the item's stored dimensions.
C3_Inside ==
    /\ last.op = "place_items" => \A n \in DOMAIN last.ids : Inside(items[last.ids[n]])
    /\ last.op \in {"place", "api_place"} /\ last.ok => Inside(items[last.item])

----------------------------------------------------------------------------
(* Waste placement: POST /api/waste/return-plan, POST /api/waste/execute-placement *)

DefaultWasteZone == "W"     \* body.get("zoneId", "W")

Ids(its) == [k \in DOMAIN its |-> k]

\* The waste items a plan is made for: the unplaced ones, then (include_all_waste)
\* the placed ones whose container id does not start with WST
WasteToPlace(its, include_all_waste) ==
    SelectSeq(Ids(its), LAMBDA k : its[k].is_waste /\ ~its[k].is_placed)
    \o (IF include_all_waste
        THEN SelectSeq(Ids(its), LAMBDA k : /\ its[k].is_waste /\ its[k].is_placed
                                            /\ ~StartsWithWST(its[k].container_id))
        ELSE <<>>)

\* The first occurrence of every element of s, in order
Dedup(s) == Rows(s, SelectSeq(Ids(s), LAMBDA k : \A j \in 1..(k - 1) : s[j] # s[k]))

\* The waste containers: by type, by the target zone, by zone "Waste", by id
WasteContainers(target_zone) ==
    Dedup(SelectSeq(AllContainers, LAMBDA k : containers[k].container_type = "waste")
          \o SelectSeq(AllContainers, LAMBDA k : containers[k].zone = target_zone)
          \o SelectSeq(AllContainers, LAMBDA k : containers[k].zone = "Waste")
          \o SelectSeq(AllContainers, LAMBDA k : StartsWithWST(containers[k].id)))

\* sorted(waste_items, key=_calculate_volume_efficiency)
RECURSIVE InsertByVolume(_, _, _)
InsertByVolume(its, sorted, e) ==
    IF sorted = <<>> THEN <<e>>
    ELSE IF VolumeEfficiency(its[e]) < VolumeEfficiency(its[Head(sorted)]) THEN <<e>> \o sorted
    ELSE <<Head(sorted)>> \o InsertByVolume(its, Tail(sorted), e)

RECURSIVE SortByVolume(_, _)
SortByVolume(its, todo) ==
    IF todo = <<>> THEN <<>>
    ELSE InsertByVolume(its, SortByVolume(its, SubSeq(todo, 1, Len(todo) - 1)), todo[Len(todo)])

PlanEntry(i, cid, position, orientation) ==
    [item_id |-> i, container_id |-> cid, position |-> position, orientation |-> orientation]

\* ps = [util, plan]: container_utilization and placement_plan
RECURSIVE PlanItem(_, _, _, _, _)

PlanAt(its, ps, i, wcs, k, r) ==
    IF r.found
    THEN [util |-> [ps.util EXCEPT ![wcs[k]] = @ + 1],
          plan |-> Append(ps.plan, PlanEntry(i, containers[wcs[k]].id, r.position, r.orientation))]
    ELSE PlanItem(its, ps, i, wcs, k + 1)

\* The loop over the waste containers for one item; container.items are the
\* rows of the database, which the plan does not change
PlanItem(its, ps, i, wcs, k) ==
    IF k > Len(wcs)
    THEN [ps EXCEPT !.plan = Append(@, PlanEntry(i, NoContainer, <<None, None, None>>, <<0, 0, 0>>))]
    ELSE IF ps.util[wcs[k]] >= containers[wcs[k]].capacity THEN PlanItem(its, ps, i, wcs, k + 1)
    ELSE PlanAt(its, ps, i, wcs, k,
                FindPositionWithRotation(containers[wcs[k]], its[i],
                                         Rows(its, PlacedIn(its, containers[wcs[k]].id)), FALSE))

RECURSIVE PlanLoop(_, _, _, _, _)
PlanLoop(its, ps, sorted_items, wcs, k) ==
    IF k > Len(sorted_items) THEN ps
    ELSE PlanLoop(its, PlanItem(its, ps, sorted_items[k], wcs, 1), sorted_items, wcs, k + 1)

PlanFor(its, waste_items, wcs) ==
    IF waste_items = <<>> \/ wcs = <<>> THEN <<>>
    ELSE PlanLoop(its, [util |-> [k \in DOMAIN containers |-> 0], plan |-> <<>>],
                  SortByVolume(its, waste_items), wcs, 1).plan

\* generate_waste_placement_plan(target_zone, include_all_waste)
GenerateWastePlacementPlan(its, target_zone, include_all_waste) ==
    PlanFor(its, WasteToPlace(its, include_all_waste), WasteContainers(target_zone))

PlanReturned(plan) ==
    /\ log < MaxLog
    /\ log' = log + 1
    /\ last' = Result("waste_plan", 0, TRUE, plan,
                      Len(SelectSeq(plan, LAMBDA e : e.container_id # NoContainer)))
    /\ UNCHANGED <<containers, items, native, today, tasks>>

\* POST /api/waste/return-plan
WastePlan ==
    \E include_all_waste \in BOOLEAN :
        PlanReturned(GenerateWastePlacementPlan(items, DefaultWasteZone, include_all_waste))

\* One entry of the plan applied to the item rows
ExecuteEntry(its, e) ==
    IF e.container_id = NoContainer \/ e.item_id \notin DOMAIN its THEN its
    ELSE [its EXCEPT ![e.item_id] =
              [@ EXCEPT !.position_x = e.position[1], !.position_y = e.position[2],
                        !.position_z = e.position[3],
                        !.width = e.orientation[1], !.height = e.orientation[2],
                        !.depth = e.orientation[3],
                        !.container_id = e.container_id, !.is_placed = TRUE]]

RECURSIVE ExecutePlacementPlan(_, _)
ExecutePlacementPlan(its, plan) ==
    IF plan = <<>> THEN its
    ELSE ExecutePlacementPlan(ExecuteEntry(its, Head(plan)), Tail(plan))

\* POST /api/waste/execute-placement with the plan the last request returned
ExecuteWastePlan ==
    /\ last.op = "waste_plan"
    /\ IF last.ids = <<>> THEN Refused("execute_plan", 0)
       ELSE /\ log < MaxLog
            /\ items' = ExecutePlacementPlan(items, last.ids)
            /\ log' = log + 1
            /\ last' = Result("execute_plan", 0, TRUE, last.ids, last.total)
            /\ UNCHANGED <<containers, native, today, tasks>>

WasteItemsMax == 2

WasteRows ==
    { CsvRow(d, 1, None, NoZone, None, 1) : d \in { <<30, 30, 30>>, <<15, 30, 30>> } }

ImportWaste == ImportItems(WasteRows, WasteItemsMax)

NextWaste == ImportWaste \/ PlaceItems \/ Repack \/ UseItem \/ WastePlan \/ ExecuteWastePlan

SpecWaste == Init /\ [][NextWaste]_vars

\* The six orders of three dimensions
DimOrders(d) ==
    { <<d[p[1]], d[p[2]], d[p[3]]>> : p \in { q \in [1..3 -> 1..3] : {q[1], q[2], q[3]} = 1..3 } }

\* C4: after any sequence of imports, uses, place_items, repack and waste
\* placement plans generated and then executed, every item's stored (width,
\* height, depth) is a permutation of the dimensions it was imported with.
C4_DimsPermuted ==
    \A i \in ItemIds : Dims(items[i]) \in DimOrders(native[i])

\* An executed waste placement plan has stored an item in an orientation other
\* than the one it was imported in.
C4_Witness ==
    /\ last.op = "execute_plan"
    /\ \E n \in DOMAIN last.ids :
           /\ last.ids[n].container_id # NoContainer
           /\ Dims(items[last.ids[n].item_id]) = last.ids[n].orientation
           /\ Dims(items[last.ids[n].item_id]) # native[last.ids[n].item_id]

----------------------------------------------------------------------------
(* Retrieval: GET /retrieve/{item_id}, PlacementService.get_retrieval_path *)

\* The test with the comparison of z turned round
BlocksFromBehind(its, i, k) ==
    /\ its[k].position_z > its[i].position_z
    /\ CheckCollision(Pos(its[i]), Dims(its[i]),
                      <<its[k].position_x, its[k].position_y, its[i].position_z>>, Dims(its[k]))

\* other_item blocks item: it starts at a lower z and, moved to the item's z,
\* collides with it
Blocks(its, i, k) ==
    /\ its[k].position_z < its[i].position_z
    /\ CheckCollision(Pos(its[i]), Dims(its[i]),
                      <<its[k].position_x, its[k].position_y, its[i].position_z>>, Dims(its[k]))

\* container_items: the other placed items of the item's container, in row order
ContainerItems(its, i) ==
    SelectSeq(Ids(its), LAMBDA k : /\ its[k].container_id = its[i].container_id
                                   /\ k # i
                                   /\ its[k].is_placed)

DisturbedItems(its, i) == SelectSeq(ContainerItems(its, i), LAMBDA k : Blocks(its, i, k))

\* The path without the line that announces the removals
RetrievalStepsUnannounced(i, cid, disturbed_items) ==
    << <<"open", cid>> >>
    \o [n \in DOMAIN disturbed_items |-> <<"remove", disturbed_items[n]>>]
    \o << <<"extract", i>> >>
    \o (IF disturbed_items # <<>> THEN << <<"replace">> >> ELSE <<>>)
    \o << <<"close", cid>> >>

\* The steps of the path, for the container cid and the disturbed items
RetrievalSteps(i, cid, disturbed_items) ==
    << <<"open", cid>> >>
    \o (IF disturbed_items # <<>>
        THEN << <<"remove_count", Len(disturbed_items)>> >>
             \o [n \in DOMAIN disturbed_items |-> <<"remove", disturbed_items[n]>>]
        ELSE <<>>)
    \o << <<"extract", i>> >>
    \o (IF disturbed_items # <<>> THEN << <<"replace">> >> ELSE <<>>)
    \o << <<"close", cid>> >>

\* What get_retrieval_path returns
RetrievalResult(i, found, path, disturbed_items, location) ==
    [op |-> "retrieve", item |-> i, ok |-> found, ids |-> disturbed_items,
     total |-> Len(path), path |-> path, location |-> location]

NoLocation == [container |-> NoContainer, position |-> <<None, None, None>>]

Location(it) == [container |-> it.container_id, position |-> Pos(it)]

\* The retrieval that counts a use and takes the item out, as POST /api/retrieve does
RetrievedAndUsed(i, disturbed_items) ==
    /\ items' = [items EXCEPT ![i] = UseItemRow(items[i])]
    /\ last' = RetrievalResult(i, TRUE,
                               RetrievalSteps(i, items[i].container_id, disturbed_items),
                               disturbed_items, Location(items[i]))

Retrieved(i, disturbed_items) ==
    /\ items' = [items EXCEPT ![i].last_retrieved = today]
    /\ last' = RetrievalResult(i, TRUE,
                               RetrievalSteps(i, items[i].container_id, disturbed_items),
                               disturbed_items, Location(items[i]))

\* The request logged whatever the result
RetrieveLogged ==
    \E i \in 0..Len(items) :
        /\ log < MaxLog
        /\ log' = log + 1
        /\ UNCHANGED <<containers, native, today, tasks>>
        /\ IF i \notin ItemIds
           THEN /\ last' = RetrievalResult(i, FALSE, <<>>, <<>>, NoLocation)
                /\ UNCHANGED items
           ELSE IF ~items[i].is_placed \/ items[i].container_id = NoContainer
           THEN /\ last' = RetrievalResult(i, TRUE, << <<"not_placed">> >>, <<>>, NoLocation)
                /\ UNCHANGED items
           ELSE Retrieved(i, DisturbedItems(items, i))

\* GET /retrieve/{item_id}: an unknown item is reported as not found and not
\* logged; an unplaced item is found, with no location
Retrieve ==
    \E i \in 0..Len(items) :
        IF i \notin ItemIds
        THEN /\ last' = RetrievalResult(i, FALSE, <<>>, <<>>, NoLocation)
             /\ UNCHANGED <<containers, items, native, log, today, tasks>>
        ELSE /\ log < MaxLog
             /\ log' = log + 1
             /\ UNCHANGED <<containers, native, today, tasks>>
             /\ IF ~items[i].is_placed \/ items[i].container_id = NoContainer
                THEN /\ last' = RetrievalResult(i, TRUE, << <<"not_placed">> >>, <<>>, NoLocation)
                     /\ UNCHANGED items
                ELSE Retrieved(i, DisturbedItems(items, i))

RetrieveItems == 3        \* rows of the items table
RetrieveRequests == 2     \* requests explored from a drawn store

RetrieveShapes == { <<30, 30, 15>>, <<15, 30, 15>> }

\* Where an item may be: nowhere, or at one of these places of A1 and WST1
RetrievePlaces ==
    { <<0, <<None, None, None>> >>,
      <<1, <<0, 0, 0>> >>, <<1, <<0, 0, 15>> >>, <<1, <<30, 0, 0>> >>, <<1, <<15, 0, 15>> >>,
      <<2, <<0, 0, 0>> >> }

StoredItem(d, pl) ==
    IF pl[1] = 0 THEN NewItem(d, 1, DefaultPriority, NoZone, None, None)
    ELSE ManualPlace(NewItem(d, 1, DefaultPriority, NoZone, None, None), PlannerFleet[pl[1]], pl[2])

\* A store as imports and POST /place requests leave it
InitRetrieve ==
    /\ containers = PlannerFleet
    /\ native \in [1..RetrieveItems -> RetrieveShapes]
    /\ \E pl \in [1..RetrieveItems -> RetrievePlaces] :
           items = [k \in 1..RetrieveItems |-> StoredItem(native[k], pl[k])]
    /\ log = MaxLog - RetrieveRequests
    /\ today = 0
    /\ tasks = <<>>
    /\ last = NoResult

NextRetrieve == Retrieve

SpecRetrieve == InitRetrieve /\ [][NextRetrieve]_vars

\* Open intervals: the projections on the (x, y) plane share interior points
XYOverlap(a, b) ==
    /\ a.position_x < b.position_x + b.width /\ b.position_x < a.position_x + a.width
    /\ a.position_y < b.position_y + b.height /\ b.position_y < a.position_y + a.height

Obstructors(i) ==
    { j \in ItemIds \ {i} : /\ SameContainer(items[i], items[j])
                            /\ items[j].position_z < items[i].position_z
                            /\ XYOverlap(items[i], items[j]) }

\* C7: for a placed item I, the disturbed_items of get_retrieval_path are, each
\* once, exactly the items J # I placed in I's container with J.z < I.z whose
\* (x, y) projection overlaps I's; the set depends on the placements alone,
\* not on the order of the rows.
C7_DisturbedExact ==
    last.op = "retrieve" /\ last.ok /\ items[last.item].is_placed =>
        /\ Range(last.ids) = Obstructors(last.item)
        /\ Len(last.ids) = Cardinality(Obstructors(last.item))

\* A retrieval that disturbs one item and leaves alone another of the same
\* container whose projection overlaps as well but which does not start lower.
C7_Witness ==
    /\ last.op = "retrieve" /\ last.ok /\ last.ids # <<>>
    /\ \E j \in ItemIds \ {last.item} :
           /\ SameContainer(items[last.item], items[j])
           /\ XYOverlap(items[last.item], items[j])
           /\ j \notin Range(last.ids)

----------------------------------------------------------------------------
(* Undocking: GET /api/undocking/generate-plan, generate_undocking_plan *)

UndockingZone == "Waste"

\* The budget test made before the item's weight is added
FitsBefore(current_weight, weight, max_weight) == current_weight <= max_weight

\* current_weight + item.weight <= max_weight
Fits(current_weight, weight, max_weight) == current_weight + weight <= max_weight

\* Container.zone == 'Waste'
UndockingContainers == SelectSeq(AllContainers, LAMBDA k : containers[k].zone = UndockingZone)

InUndockingZone(cid) == \E n \in DOMAIN UndockingContainers : containers[UndockingContainers[n]].id = cid

\* order_by(Item.priority.desc(), Item.weight.desc())
UndockBefore(a, b) ==
    \/ a.priority > b.priority
    \/ a.priority = b.priority /\ a.weight > b.weight

RECURSIVE InsertUndock(_, _, _)
InsertUndock(its, sorted, e) ==
    IF sorted = <<>> THEN <<e>>
    ELSE IF UndockBefore(its[e], its[Head(sorted)]) THEN <<e>> \o sorted
    ELSE <<Head(sorted)>> \o InsertUndock(its, Tail(sorted), e)

RECURSIVE SortUndock(_, _)
SortUndock(its, todo) ==
    IF todo = <<>> THEN <<>>
    ELSE InsertUndock(its, SortUndock(its, SubSeq(todo, 1, Len(todo) - 1)), todo[Len(todo)])

\* The placed items of the waste-zone containers, in the order of the query;
\* rows equal in priority and weight keep the order of the table
ItemsInWaste(its) ==
    SortUndock(its, SelectSeq(Ids(its), LAMBDA k : /\ InUndockingZone(its[k].container_id)
                                                   /\ its[k].is_placed))

UndockEntry(its, k) ==
    [item_id |-> k, weight |-> its[k].weight, source_container_id |-> its[k].container_id]

\* The selection loop with the break: it ends at the first item that does not fit
RECURSIVE SelectForUndockingBreak(_, _, _, _, _)
SelectForUndockingBreak(its, todo, max_weight, plan, current_weight) ==
    IF todo = <<>> THEN [items_in_plan |-> plan, total_weight |-> current_weight]
    ELSE IF Fits(current_weight, its[Head(todo)].weight, max_weight)
         THEN SelectForUndockingBreak(its, Tail(todo), max_weight,
                                      Append(plan, UndockEntry(its, Head(todo))),
                                      current_weight + its[Head(todo)].weight)
         ELSE [items_in_plan |-> plan, total_weight |-> current_weight]

\* The selection loop: an item that does not fit is passed over, the loop goes on
RECURSIVE SelectForUndocking(_, _, _, _, _)
SelectForUndocking(its, todo, max_weight, plan, current_weight) ==
    IF todo = <<>> THEN [items_in_plan |-> plan, total_weight |-> current_weight]
    ELSE IF Fits(current_weight, its[Head(todo)].weight, max_weight)
         THEN SelectForUndocking(its, Tail(todo), max_weight,
                                 Append(plan, UndockEntry(its, Head(todo))),
                                 current_weight + its[Head(todo)].weight)
         ELSE SelectForUndocking(its, Tail(todo), max_weight, plan, current_weight)

GenerateUndockingPlan(its, max_weight) ==
    IF UndockingContainers = <<>> THEN [items_in_plan |-> <<>>, total_weight |-> 0]
    ELSE SelectForUndocking(its, ItemsInWaste(its), max_weight, <<>>, 0)

UndockingResult(plan, max_weight) ==
    [op |-> "undocking_plan", item |-> 0, ok |-> TRUE, ids |-> plan.items_in_plan,
     total |-> plan.total_weight, max_weight |-> max_weight]

UndockBudgets == 0..3     \* max_weight of the requests

UndockingPlan ==
    \E max_weight \in UndockBudgets :
        /\ log < MaxLog
        /\ log' = log + 1
        /\ last' = UndockingResult(GenerateUndockingPlan(items, max_weight), max_weight)
        /\ UNCHANGED <<containers, items, native, today, tasks>>

UndockItems == 4          \* rows of the items table

UndockWeights == {1, 2}
UndockPriorities == {DefaultPriority, 80}
UndockPlaces == 0..2      \* nowhere, or in the container of this row of the fleet

UndockItem(w, p, pl) ==
    IF pl = 0 THEN NewItem(<<15, 15, 15>>, w, p, NoZone, None, None)
    ELSE ManualPlace(NewItem(<<15, 15, 15>>, w, p, NoZone, None, None), PlannerFleet[pl], <<0, 0, 0>>)

\* A store as imports and POST /place requests leave it
InitUndock ==
    /\ containers = PlannerFleet
    /\ native = [k \in 1..UndockItems |-> <<15, 15, 15>>]
    /\ \E w \in [1..UndockItems -> UndockWeights], p \in [1..UndockItems -> UndockPriorities],
          pl \in [1..UndockItems -> UndockPlaces] :
           items = [k \in 1..UndockItems |-> UndockItem(w[k], p[k], pl[k])]
    /\ log = MaxLog - 1
    /\ today = 0
    /\ tasks = <<>>
    /\ last = NoResult

NextUndock == UndockingPlan

SpecUndock == InitUndock /\ [][NextUndock]_vars

----------------------------------------------------------------------------
(* Rearrangement: GET /api/rearrangement, RearrangementService.           *)
(* Volumes are whole numbers; a percentage or a score is                  *)
(* compared after multiplying both sides by the container volumes.        *)

Abs(n) == IF n < 0 THEN -n ELSE n

\* width * height * depth, in eighths of a cubic metre: every dimension of the
\* stores explored is a multiple of 0.5 m, 15 units
ContainerVolume(c) == (c.width * c.height * c.depth) \div 3375
ItemVolume(it) == (it.width * it.height * it.depth) \div 3375

\* used_volume: the volume of the items placed in the container
UsedVolume(its, cid) ==
    SumSeq([n \in DOMAIN PlacedIn(its, cid) |-> ItemVolume(its[PlacedIn(its, cid)[n]])])

\* calculate_container_utilization(c) > pct and < pct
UtilizationOver(its, k, pct) ==
    100 * UsedVolume(its, containers[k].id) > pct * ContainerVolume(containers[k])

UtilizationUnder(its, k, pct) ==
    100 * UsedVolume(its, containers[k].id) < pct * ContainerVolume(containers[k])

\* get_container_efficiency_score, times ten times the container volume
EfficiencyScore(used, volume) ==
    (100 * volume - Abs(75 * volume - 100 * used))
    * (IF 100 * used < 20 * volume THEN 7 ELSE IF 100 * used > 90 * volume THEN 8 ELSE 10)

\* inefficiency_score = 100 - efficiency_score > 30
Inefficient(used, volume) == 1000 * volume - EfficiencyScore(used, volume) > 300 * volume

\* The ids of get_disorganized_containers(excluded_types=["waste"]) with an
\* inefficiency score over 30
DisorganizedIds(its) ==
    SelectSeq(AllContainers,
              LAMBDA k : /\ containers[k].container_type # "waste"
                         /\ Inefficient(UsedVolume(its, containers[k].id),
                                        ContainerVolume(containers[k])))

Overutilized(its) == SelectSeq(AllContainers, LAMBDA k : UtilizationOver(its, k, 85))

SourcesFrom(its, overutilized, disorganized_ids) ==
    IF overutilized \o disorganized_ids # <<>>
    THEN overutilized \o SelectSeq(AllContainers,
                                   LAMBDA k : /\ k \in Range(disorganized_ids)
                                              /\ k \notin Range(overutilized))
    ELSE SelectSeq(AllContainers, LAMBDA k : UtilizationOver(its, k, 60))

SourceContainers(its) == SourcesFrom(its, Overutilized(its), DisorganizedIds(its))

\* container_capacity_map[c.id]["is_full"]
IsFull(its, k) == CountIn(its, containers[k].id) >= containers[k].capacity

AvailableContainers(its) == SelectSeq(AllContainers, LAMBDA k : ~IsFull(its, k))

TargetsFrom(its, available_containers, source_containers) ==
    IF SelectSeq(available_containers, LAMBDA k : UtilizationUnder(its, k, 50)) # <<>>
    THEN SelectSeq(available_containers, LAMBDA k : UtilizationUnder(its, k, 50))
    ELSE IF SelectSeq(available_containers, LAMBDA k : UtilizationUnder(its, k, 70)) # <<>>
    THEN SelectSeq(available_containers, LAMBDA k : UtilizationUnder(its, k, 70))
    ELSE SelectSeq(available_containers, LAMBDA k : k \notin Range(source_containers))

PotentialTargets(its, source_containers) ==
    TargetsFrom(its, AvailableContainers(its), source_containers)


\* The placed items of container k of priority <= threshold that are not
\* listed yet
MovableIn(its, k, threshold, movable_items) ==
    SelectSeq(PlacedIn(its, containers[k].id),
              LAMBDA j : /\ its[j].priority <= threshold
                         /\ \A e \in Range(movable_items) : e[1] # j)

PairedWith(found, k) == [m \in DOMAIN found |-> <<found[m], k>>]

\* One attempt of the search for movable items: every source container in
\* turn, each item paired with its container
MovableAt(its, source_containers, threshold, movable_items) ==
    Flatten([n \in DOMAIN source_containers |->
                PairedWith(MovableIn(its, source_containers[n], threshold, movable_items),
                           source_containers[n])])

\* The attempts with the threshold raised by 20 after each, whatever it reaches
RECURSIVE FindMovableUncapped(_, _, _, _, _, _)
FindMovableUncapped(its, source_containers, attempt, threshold, max_movements, movable_items) ==
    IF attempt >= 3 \/ Len(movable_items) >= max_movements THEN movable_items
    ELSE FindMovableUncapped(its, source_containers, attempt + 1, threshold + 20, max_movements,
                             movable_items \o MovableAt(its, source_containers, threshold + 20,
                                                        movable_items))

\* Up to three attempts, the threshold raised by 20 after each, never over 80
RECURSIVE FindMovable(_, _, _, _, _, _)
FindMovable(its, source_containers, attempt, threshold, max_movements, movable_items) ==
    IF attempt >= 3 \/ Len(movable_items) >= max_movements THEN movable_items
    ELSE IF threshold + 20 > 80 THEN movable_items
    ELSE FindMovable(its, source_containers, attempt + 1, threshold + 20, max_movements,
                     movable_items \o MovableAt(its, source_containers, threshold + 20,
                                                movable_items))

MovableItems(its, source_containers, priority_threshold, max_movements) ==
    FindMovable(its, source_containers, 1, priority_threshold, max_movements,
                MovableAt(its, source_containers, priority_threshold, <<>>))

\* movable_items.sort(key=lambda x: x[0].priority)
RECURSIVE InsertMovable(_, _, _)
InsertMovable(its, sorted, e) ==
    IF sorted = <<>> THEN <<e>>
    ELSE IF its[e[1]].priority < its[Head(sorted)[1]].priority THEN <<e>> \o sorted
    ELSE <<Head(sorted)>> \o InsertMovable(its, Tail(sorted), e)

RECURSIVE SortMovable(_, _)
SortMovable(its, todo) ==
    IF todo = <<>> THEN <<>>
    ELSE InsertMovable(its, SortMovable(its, SubSeq(todo, 1, Len(todo) - 1)), todo[Len(todo)])


\* virtual_container_usage[target.id] < target.capacity, read from the counts
\* of the store instead of the running ones
HasRoomAtStart(its, usage, k) == CountIn(its, containers[k].id) < containers[k].capacity

\* not (virtual_container_usage[target.id] >= target.capacity)
HasRoom(its, usage, k) == usage[k] < containers[k].capacity

\* item_volume <= remaining_volume, by the volumes of the store
VolumeFits(its, j, k) ==
    ItemVolume(its[j]) <= ContainerVolume(containers[k]) - UsedVolume(its, containers[k].id)

\* The targets the loop does not skip for the item j of container from_k
Eligible(its, potential_targets, j, from_k, usage) ==
    SelectSeq(potential_targets,
              LAMBDA k : k # from_k /\ HasRoom(its, usage, k) /\ VolumeFits(its, j, k))

\* fit_score = 100 - (container_volume - item_volume) / container_volume * 100
\* of container a is greater than, or equal to, that of container b
FitGreater(its, j, a, b) ==
    ItemVolume(its[j]) * ContainerVolume(containers[b])
        > ItemVolume(its[j]) * ContainerVolume(containers[a])

FitEqual(its, j, a, b) ==
    ItemVolume(its[j]) * ContainerVolume(containers[b])
        = ItemVolume(its[j]) * ContainerVolume(containers[a])

\* The first target of the greatest fit score
BestFit(its, j, eligible) ==
    eligible[CHOOSE n \in DOMAIN eligible :
                 \A m \in DOMAIN eligible :
                     \/ FitGreater(its, j, eligible[n], eligible[m])
                     \/ FitEqual(its, j, eligible[n], eligible[m]) /\ n <= m]

\* find_optimal_container: the score of a container, times 40 times its volume
OptimalScore(it, c, used) ==
    (IF it.preferred_zone # NoZone /\ c.zone = it.preferred_zone THEN 10 ELSE 20)
        * ContainerVolume(c)
    + 12 * (ContainerVolume(c) - used - ItemVolume(it))
    + Abs(6 * ContainerVolume(c) - 8 * used)

ScoreLess(its, j, a, b) ==
    OptimalScore(its[j], containers[a], UsedVolume(its, containers[a].id))
        * ContainerVolume(containers[b])
    < OptimalScore(its[j], containers[b], UsedVolume(its, containers[b].id))
        * ContainerVolume(containers[a])

\* The container find_optimal_container returns, 0 for none. Two candidates of
\* one score make heapify compare two Container objects, which raises; the
\* caller catches it and goes without a container. (With up to three
\* candidates heapify and heappop compare every pair that can tie.)
OptimalAmong(its, j, scored) ==
    IF scored = <<>> THEN 0
    ELSE IF \E n, m \in DOMAIN scored :
                n # m /\ ~ScoreLess(its, j, scored[n], scored[m])
                      /\ ~ScoreLess(its, j, scored[m], scored[n])
    THEN 0
    ELSE scored[CHOOSE n \in DOMAIN scored :
                    \A m \in DOMAIN scored \ {n} : ScoreLess(its, j, scored[n], scored[m])]

FindOptimalContainer(its, j) ==
    OptimalAmong(its, j, SelectSeq(AllContainers, LAMBDA k : VolumeFits(its, j, k)))

\* The fallback is taken if it is another container with room
Fallback(its, from_k, usage, candidate) ==
    IF candidate # 0 /\ candidate # from_k /\ HasRoom(its, usage, candidate)
    THEN candidate ELSE 0

BestOf(its, j, from_k, usage, eligible) ==
    IF eligible # <<>> THEN BestFit(its, j, eligible)
    ELSE Fallback(its, from_k, usage, FindOptimalContainer(its, j))

\* best_container for the item j of container from_k, 0 for none
BestContainer(its, potential_targets, j, from_k, usage) ==
    BestOf(its, j, from_k, usage, Eligible(its, potential_targets, j, from_k, usage))

Movement(step, j, from_k, to_k) ==
    [step |-> step, item_id |-> j,
     from_container_id |-> containers[from_k].id, to_container_id |-> containers[to_k].id]

\* The loop over the movable items; i counts from 1, the step of a movement is
\* the place of its item in the list
RECURSIVE MoveLoop(_, _, _, _, _, _, _)
MoveStep(its, potential_targets, movable_items, i, max_movements, usage, movements, best) ==
    IF best = 0
    THEN MoveLoop(its, potential_targets, movable_items, i + 1, max_movements, usage, movements)
    ELSE MoveLoop(its, potential_targets, movable_items, i + 1, max_movements,
                  [usage EXCEPT ![movable_items[i][2]] = @ - 1, ![best] = @ + 1],
                  Append(movements, Movement(i, movable_items[i][1], movable_items[i][2], best)))

\* The loop without its test of i against max_movements
MoveLoopUncapped(its, potential_targets, movable_items, i, max_movements, usage, movements) ==
    IF i > Len(movable_items) THEN movements
    ELSE MoveStep(its, potential_targets, movable_items, i, max_movements, usage, movements,
                  BestContainer(its, potential_targets, movable_items[i][1],
                                movable_items[i][2], usage))

MoveLoop(its, potential_targets, movable_items, i, max_movements, usage, movements) ==
    IF i > Len(movable_items) \/ i - 1 >= max_movements THEN movements
    ELSE MoveStep(its, potential_targets, movable_items, i, max_movements, usage, movements,
                  BestContainer(its, potential_targets, movable_items[i][1],
                                movable_items[i][2], usage))

\* virtual_container_usage at the start: the items_count of every container
ItemsCount(its) == [k \in DOMAIN containers |-> CountIn(its, containers[k].id)]

PlanMoves(its, potential_targets, movable_items, max_movements) ==
    IF potential_targets = <<>> \/ movable_items = <<>> THEN <<>>
    ELSE MoveLoop(its, potential_targets, SortMovable(its, movable_items), 1, max_movements,
                  ItemsCount(its), <<>>)

PlanFrom(its, source_containers, priority_threshold, max_movements) ==
    IF source_containers = <<>> THEN <<>>
    ELSE PlanMoves(its, PotentialTargets(its, source_containers),
                   MovableItems(its, source_containers, priority_threshold, max_movements),
                   max_movements)

\* The movements of generate_rearrangement_plan
GenerateRearrangementPlan(its, priority_threshold, max_movements) ==
    IF Len(containers) < 2 THEN <<>>
    ELSE PlanFrom(its, SourceContainers(its), priority_threshold, max_movements)


RearrangementResult(movements, priority_threshold, max_movements) ==
    [op |-> "rearrangement", item |-> 0, ok |-> TRUE, ids |-> movements, total |-> Len(movements),
     priority_threshold |-> priority_threshold, max_movements |-> max_movements]

RearrangeThresholds == {0, 30, 50}  \* priority_threshold of the requests
RearrangeMaxMovements == {1, 10}    \* max_movements of the requests

\* GET /api/rearrangement: the plan is returned and logged, the store is left alone
RearrangementPlan ==
    \E priority_threshold \in RearrangeThresholds, max_movements \in RearrangeMaxMovements :
        /\ log < MaxLog
        /\ log' = log + 1
        /\ last' = RearrangementResult(
                       GenerateRearrangementPlan(items, priority_threshold, max_movements),
                       priority_threshold, max_movements)
        /\ UNCHANGED <<containers, items, native, today, tasks>>

RearrangeItems == 3       \* rows of the items table

RearrangeShapes == { <<30, 15, 15>>, <<30, 30, 30>> }
RearrangePriorities == {20, DefaultPriority, 80}
RearrangePlaces == 0..3   \* nowhere, or in the container of this row of the fleet

RearrangeItem(d, p, pl) ==
    IF pl = 0 THEN NewItem(d, 1, p, NoZone, None, None)
    ELSE ManualPlace(NewItem(d, 1, p, NoZone, None, None), PlannerFleet[pl], <<0, 0, 0>>)

\* A store as imports and POST /place requests leave it: POST /place refuses
\* a position out of bounds, and checks neither overlap nor capacity
InitRearrange ==
    /\ containers = PlannerFleet
    /\ native \in [1..RearrangeItems -> RearrangeShapes]
    /\ \E p \in [1..RearrangeItems -> RearrangePriorities],
          pl \in [1..RearrangeItems -> RearrangePlaces] :
           /\ items = [k \in 1..RearrangeItems |-> RearrangeItem(native[k], p[k], pl[k])]
           /\ \A k \in 1..RearrangeItems :
                  pl[k] # 0 => ~OutOfBounds(items[k], PlannerFleet[pl[k]], <<0, 0, 0>>)
    /\ log = MaxLog - 1
    /\ today = 0
    /\ tasks = <<>>
    /\ last = NoResult

NextRearrange == RearrangementPlan

SpecRearrange == InitRearrange /\ [][NextRearrange]_vars

\* The number of items in container cid after the first n movements, each
\* taking one item out of from_container_id and into to_container_id
CountAfter(movements, n, cid) ==
    CountIn(items, cid)
    - Cardinality({m \in 1..n : movements[m].from_container_id = cid})
    + Cardinality({m \in 1..n : movements[m].to_container_id = cid})

\* C10: from a store in which every container holds at most capacity items,
\* every prefix of the movements of generate_rearrangement_plan, applied in
\* order, leaves every container with at most capacity items.
C10_RearrangementCapacity ==
    last.op = "rearrangement" /\ C2_WithinCapacity =>
        \A n \in 0..Len(last.ids) : \A k \in DOMAIN containers :
            CountAfter(last.ids, n, containers[k].id) <= containers[k].capacity

\* A plan of two movements whose first fills its target, so that the second
\* item, of the same container, goes elsewhere
C10_Witness ==
    /\ last.op = "rearrangement" /\ C2_WithinCapacity /\ Len(last.ids) >= 2
    /\ last.ids[1].from_container_id = last.ids[2].from_container_id
    /\ last.ids[1].to_container_id # last.ids[2].to_container_id
    /\ CountAfter(last.ids, 1, last.ids[1].to_container_id)
           = containers[ContainerIdx(last.ids[1].to_container_id)].capacity
    /\ VolumeFits(items, last.ids[2].item_id, ContainerIdx(last.ids[1].to_container_id))

----------------------------------------------------------------------------
(* Waste: time simulation, waste identification, the undocking sweep *)

\* A request that rewrites the items table and reports a list of item ids
Marked(op, its, ids) ==
    /\ log < MaxLog
    /\ items' = its
    /\ log' = log + 1
    /\ last' = Result(op, 0, TRUE, ids, Len(ids))
    /\ UNCHANGED <<containers, native, today, tasks>>

SimulatedUses == {1}      \* uses of the item of a usage plan
SimulatedDays == {1}      \* days of POST /simulate-time

\* POST /simulate/day, the usage plan: a waste item is skipped, an item
\* without usage limit is not counted
UsedRow(it, uses) ==
    IF it.is_waste \/ it.usage_limit = None THEN it
    ELSE [it EXCEPT !.usage_count = @ + uses,
                    !.is_waste = IF it.usage_limit > 0 /\ it.usage_count + uses >= it.usage_limit
                                 THEN TRUE ELSE @]

\* The query Item.is_waste == False reads the rows as last committed, db
ExpiresBy(db, k, simulated_date) ==
    ~db[k].is_waste /\ db[k].expiry_date # None /\ db[k].expiry_date <= simulated_date

SimulateDayRun(its, i, uses, simulated_date) ==
    [k \in DOMAIN its |->
        IF ExpiresBy(its, k, simulated_date)
        THEN [(IF k = i THEN UsedRow(its[k], uses) ELSE its[k]) EXCEPT !.is_waste = TRUE]
        ELSE IF k = i THEN UsedRow(its[k], uses) ELSE its[k]]

\* POST /simulate/day and POST /api/simulate/day, with a usage plan for the
\* item i (0: an empty plan, or an unknown id); it reports the expired items
SimulateDay ==
    \E i \in 0..Len(items), uses \in SimulatedUses :
        Marked("simulate_day", SimulateDayRun(items, i, uses, today + 1),
               SelectSeq(Ids(items), LAMBDA k : ExpiresBy(items, k, today + 1)))

\* The query of the newly expired items without its is_waste == False filter
NewlyExpiredAgain(db, k, simulated_date) ==
    /\ db[k].expiry_date # None /\ db[k].expiry_date > today
    /\ db[k].expiry_date <= simulated_date

\* simulate_time: both queries read the rows as last committed, db; the
\* filter after the second reads the new count
NewlyExpired(db, k, simulated_date) ==
    /\ db[k].expiry_date # None /\ db[k].expiry_date > today
    /\ db[k].expiry_date <= simulated_date /\ ~db[k].is_waste

NewlyUsedUp(db, k, uses) ==
    /\ db[k].usage_limit # None /\ db[k].usage_count < db[k].usage_limit /\ ~db[k].is_waste
    /\ db[k].usage_count + uses >= db[k].usage_limit

\* The usage plan counts whatever the item, waste or without limit
SimulateTimeRow(db, k, uses, simulated_date) ==
    [db[k] EXCEPT !.usage_count = @ + uses,
                  !.is_waste = IF NewlyExpired(db, k, simulated_date) \/ NewlyUsedUp(db, k, uses)
                               THEN TRUE ELSE @]

SimulateTimeRun(its, i, uses, days) ==
    [k \in DOMAIN its |-> SimulateTimeRow(its, k, IF k = i THEN uses ELSE 0, today + days)]

\* What simulate_time returns: days_simulated, items_expired, new_waste_items
SimulateTimeResult(days, items_used, items_expired, new_waste_items) ==
    [op |-> "simulate_time", item |-> 0, ok |-> TRUE, ids |-> new_waste_items,
     total |-> Len(new_waste_items), days_simulated |-> days, items_used |-> items_used,
     items_expired |-> items_expired]

\* POST /simulate-time
SimulateTime ==
    \E i \in 0..Len(items), uses \in SimulatedUses, days \in SimulatedDays :
        LET newly_expired == SelectSeq(Ids(items), LAMBDA k : NewlyExpired(items, k, today + days))
            newly_used_up == SelectSeq(Ids(items),
                                       LAMBDA k : NewlyUsedUp(items, k, IF k = i THEN uses ELSE 0))
        IN /\ log < MaxLog
           /\ items' = SimulateTimeRun(items, i, uses, days)
           /\ log' = log + 1
           /\ last' = SimulateTimeResult(days, IF i \in ItemIds THEN <<i>> ELSE <<>>,
                                         newly_expired, newly_expired \o newly_used_up)
           /\ UNCHANGED <<containers, native, today, tasks>>

\* Waste identification: an expired item, or one with a usage limit (not 0)
\* that is reached, becomes waste
IdentifyRow(it) ==
    IF it.is_waste THEN it
    ELSE IF it.expiry_date # None /\ it.expiry_date < today THEN [it EXCEPT !.is_waste = TRUE]
    ELSE IF it.usage_limit # None /\ it.usage_limit # 0 /\ it.usage_count >= it.usage_limit
         THEN [it EXCEPT !.is_waste = TRUE]
    ELSE it

IdentifyRun(its) == [k \in DOMAIN its |-> IdentifyRow(its[k])]

Identified(after) ==
    Marked("identify_waste", after, SelectSeq(Ids(after), LAMBDA k : after[k].is_waste))

\* GET /waste/identify and GET /api/waste/identify; they report every waste item
IdentifyWaste == Identified(IdentifyRun(items))

\* manage_waste: the expired items, then the fully used ones
ManageExpired(db, k) ==
    db[k].expiry_date # None /\ db[k].expiry_date < today /\ ~db[k].is_waste

ManageFullyUsed(db, k) ==
    db[k].usage_limit # None /\ db[k].usage_count >= db[k].usage_limit /\ ~db[k].is_waste

ManageRun(its) ==
    [k \in DOMAIN its |->
        IF ManageExpired(its, k) \/ ManageFullyUsed(its, k)
        THEN [its[k] EXCEPT !.is_waste = TRUE] ELSE its[k]]

\* POST /waste-management; it reports waste_items
ManageWaste ==
    Marked("manage_waste", ManageRun(items),
           SelectSeq(Ids(items), LAMBDA k : ManageExpired(items, k))
           \o SelectSeq(Ids(items), LAMBDA k : ManageFullyUsed(items, k)))

\* The undocking sweep of one container: every item of the container leaves
\* it and is no waste any more
SweepRow(it, cid) ==
    IF it.container_id = cid THEN [ClearPlacement(it) EXCEPT !.is_waste = FALSE] ELSE it

SweepRun(its, cid, remove_items) ==
    IF remove_items THEN [k \in DOMAIN its |-> SweepRow(its[k], cid)] ELSE its

\* POST /api/waste/complete-undocking for one container; it reports removed_items
CompleteUndocking ==
    \E c \in DOMAIN containers, remove_items \in BOOLEAN :
        Marked("complete_undocking", SweepRun(items, containers[c].id, remove_items),
               IF remove_items
               THEN SelectSeq(Ids(items), LAMBDA k : items[k].container_id = containers[c].id)
               ELSE <<>>)


LatchItems == 2           \* rows of the items table

\* Rows with a usage limit, with a date of expiry already past, with one to come
LatchRows ==
    { CsvRow(<<30, 15, 15>>, 1, None, NoZone, None, None),
      CsvRow(<<30, 15, 15>>, 1, None, NoZone, None, 1),
      CsvRow(<<30, 15, 15>>, 1, None, NoZone, 0, None),
      CsvRow(<<30, 15, 15>>, 1, None, NoZone, 2, None) }

InitLatch ==
    /\ containers = PlannerFleet
    /\ items = <<>>
    /\ native = <<>>
    /\ log = 0
    /\ today = 1
    /\ tasks = <<>>
    /\ last = NoResult

ImportLatch == ImportItems(LatchRows, LatchItems)

NextLatch ==
    \/ ImportLatch \/ PlaceItems \/ Repack \/ Retrieve \/ UseItem
    \/ SimulateDay \/ SimulateTime \/ IdentifyWaste \/ ManageWaste
    \/ RearrangementPlan \/ CompleteUndocking

SpecLatch == InitLatch /\ [][NextLatch]_vars

\* C8: an item that is waste stays waste through every step (imports and
\* re-imports, place_items, repack, retrieval, use, time simulation, waste
\* identification, rearrangement planning) except the undocking sweep.
C8_WasteLatching ==
    [][\A i \in ItemIds :
           items[i].is_waste /\ ~items'[i].is_waste => last'.op = "complete_undocking"]_vars

\* A waste item has been imported again, and is waste still
C8_Witness == last.op = "import" /\ items[last.item].is_waste


\* The placed items of the source containers of priority <= threshold
CandidatesAt(threshold) ==
    { j \in ItemIds : /\ items[j].is_placed
                      /\ \E n \in DOMAIN SourceContainers(items) :
                             containers[SourceContainers(items)[n]].id = items[j].container_id
                      /\ items[j].priority <= threshold }

\* The effective threshold: raised by 20 while fewer than max_movements
\* candidates are found, never to a value above 80
RECURSIVE EffectiveThreshold(_, _)
EffectiveThreshold(threshold, max_movements) ==
    IF Cardinality(CandidatesAt(threshold)) < max_movements /\ threshold + 20 <= 80
    THEN EffectiveThreshold(threshold + 20, max_movements)
    ELSE threshold

----------------------------------------------------------------------------
(* Priority order of a planner run: one storage container that every item
   fits into, more items than its capacity. *)

PriorityItems == 3

PriorityFleet == << ContainerRow("A1", 60, 30, 30, 2, "storage", "A") >>

PriorityRows ==
    { CsvRow(d, 1, p, NoZone, None, None) :
        d \in { <<30, 15, 15>>, <<15, 15, 15>> }, p \in { 10, DefaultPriority, 100 } }

InitPriority ==
    /\ containers = PriorityFleet
    /\ items = <<>>
    /\ native = <<>>
    /\ log = 0
    /\ today = 0
    /\ tasks = <<>>
    /\ last = NoResult

ImportPriority == ImportItems(PriorityRows, PriorityItems)

NextPriority == ImportPriority \/ PlaceItems \/ Repack

SpecPriority == InitPriority /\ [][NextPriority]_vars

PlannerRun == last.op \in { "place_items", "repack" }

\* The run started on an empty container: every placement in the store is its own
FreshRun == \A i \in ItemIds : items[i].is_placed => i \in Range(last.ids)

\* C12: a planner run over a single empty storage container of capacity k,
\* given more than k items that all fit, places k of them, and no item it
\* leaves unplaced has a higher priority than one it placed.
C12_PriorityOrder ==
    (PlannerRun /\ FreshRun /\ Len(last.attempted) > containers[1].capacity) =>
        /\ Len(last.ids) = containers[1].capacity
        /\ \A p \in Range(last.ids), u \in Range(last.attempted) \ Range(last.ids) :
               items[u].priority <= items[p].priority

C12_Witness ==
    /\ PlannerRun /\ FreshRun
    /\ Len(last.attempted) > containers[1].capacity
    /\ Len(last.ids) = containers[1].capacity
    /\ \E p \in Range(last.ids), u \in Range(last.attempted) \ Range(last.ids) :
           /\ items[u].priority < items[p].priority
           /\ u < p

----------------------------------------------------------------------------
\* C13: simulate_time marks as waste, and lists in items_expired, every item
\* that was not waste and whose date of expiry is set and no later than
\* today + days, the dates already past before the call included.
C13_ExpiredMarked ==
    [][last'.op = "simulate_time" /\ log' = log + 1 =>
         \A k \in ItemIds :
             (/\ ~items[k].is_waste
              /\ items[k].expiry_date # None
              /\ items[k].expiry_date <= today + last'.days_simulated)
             => items'[k].is_waste /\ k \in Range(last'.items_expired)]_vars

----------------------------------------------------------------------------
SelectedIds == { last.ids[n].item_id : n \in DOMAIN last.ids }

WasteZoneIds == { k \in ItemIds : items[k].is_placed /\ InUndockingZone(items[k].container_id) }

\* C14 as stated: the selection of generate_undocking_plan is a prefix of the
\* descending (priority, weight) order of the waste-zone items: no item is
\* selected that comes after an item passed over.
C14_SelectionIsPrefix ==
    last.op = "undocking_plan" =>
        \A u \in WasteZoneIds \ SelectedIds, s \in SelectedIds :
            ~UndockBefore(items[u], items[s])

\* The weight selected among the first n items of the order
SelectedBefore(order, n) ==
    SumSeq([m \in 1..(n - 1) |->
               IF order[m] \in SelectedIds THEN items[order[m]].weight ELSE 0])

\* C14, amended: generate_undocking_plan walks the waste-zone items in
\* descending (priority, weight) order and selects exactly the items whose
\* weight keeps the running total within max_weight; an item that does not fit
\* is passed over and the walk goes on to the later items.
C14_SelectionFirstFit ==
    last.op = "undocking_plan" =>
        LET order == ItemsInWaste(items)
        IN /\ [n \in DOMAIN last.ids |-> last.ids[n].item_id]
                  = SelectSeq(order, LAMBDA k : k \in SelectedIds)
           /\ \A n \in DOMAIN order :
                  order[n] \in SelectedIds
                      <=> SelectedBefore(order, n) + items[order[n]].weight <= last.max_weight

\* A lighter item is selected after a heavier one of higher rank was passed over
C14_Witness ==
    /\ last.op = "undocking_plan"
    /\ \E u \in WasteZoneIds \ SelectedIds, s \in SelectedIds :
           /\ UndockBefore(items[u], items[s])
           /\ items[s].weight < items[u].weight
           /\ last.total + items[u].weight > last.max_weight

----------------------------------------------------------------------------
\* floor(total_capacity * f), f by the number of items of the run
GovernorCap(total_capacity, item_count) ==
    IF item_count <= 20 THEN (total_capacity * 3) \div 10
    ELSE IF item_count <= 100 THEN (total_capacity * 6) \div 10
    ELSE (total_capacity * Max2(6500, 8500 - item_count)) \div 10000

TotalCapacity == SumSeq([k \in DOMAIN containers |-> containers[k].capacity])

\* C15: a place_items run places at most floor(total_capacity * f) items,
\* total_capacity the sum of the capacities of all containers and f = 0.3 for
\* a run of at most 20 items.
C15_CapacityGovernor ==
    PlannerRun => Len(last.ids) <= GovernorCap(TotalCapacity, Len(last.attempted))

----------------------------------------------------------------------------
PlacedRetrieval == last.op = "retrieve" /\ last.ok /\ items[last.item].is_placed

C16_WitnessFree ==
    /\ PlacedRetrieval
    /\ Obstructors(last.item) = {}
    /\ Len(last.path) = 3

----------------------------------------------------------------------------
\* C17: GET /retrieve/{item_id} changes no field of an item but the
\* last_retrieved (and last_retrieved_by) of its target: usage_count, is_waste,
\* is_placed, container_id, position and dimensions of every item are as before.
C17_RetrievalFrame ==
    [][last'.op = "retrieve" =>
         /\ DOMAIN items' = DOMAIN items
         /\ \A k \in ItemIds :
                /\ [items'[k] EXCEPT !.last_retrieved = items[k].last_retrieved] = items[k]
                /\ k # last'.item => items'[k] = items[k]]_vars

\* A placed item behind another has been retrieved: the date is written, the
\* item is where it was
C17_Witness ==
    /\ PlacedRetrieval
    /\ last.ids # <<>>
    /\ items[last.item].last_retrieved = today
    /\ last.location = Location(items[last.item])

\* C18: for an id absent from the store get_retrieval_path returns found =
\* false, an empty path, no disturbed items and no location, and leaves the
\* items and the action log as they were; for an item that is not placed it
\* returns found = true, no location and no disturbed items.
C18_AbsentOrUnplaced ==
    [][last'.op = "retrieve" =>
         /\ last'.item \notin ItemIds =>
                /\ ~last'.ok /\ last'.path = <<>> /\ last'.ids = <<>>
                /\ last'.location = NoLocation
                /\ items' = items /\ log' = log
         /\ last'.item \in ItemIds /\ ~items[last'.item].is_placed =>
                /\ last'.ok /\ last'.ids = <<>> /\ last'.location = NoLocation]_vars

\* An absent id asked for after a retrieval that was logged
C18_Witness ==
    /\ last.op = "retrieve" /\ last.item \notin ItemIds /\ ~last.ok
    /\ log > MaxLog - RetrieveRequests

\* An item that is not placed has been asked for
C18_WitnessUnplaced ==
    /\ last.op = "retrieve" /\ last.item \in ItemIds /\ last.ok
    /\ ~items[last.item].is_placed /\ last.location = NoLocation

----------------------------------------------------------------------------
(* The commit that ends a planner run may fail; place_items then rolls the
   session back to the last commit. *)

\* The rows after db.rollback(): with nothing unplaced the reset of every
\* placement was committed before the run, otherwise nothing was
RolledBack(its) == IF Unplaced(its) = <<>> THEN ClearAll(its) ELSE its

\* POST /place-items when the commit at the end of the run raises; the
\* request still answers with the counts of the run and is logged
PlaceItemsCommitFails ==
    /\ containers # <<>> /\ items # <<>>
    /\ log < MaxLog
    /\ items' = RolledBack(items)
    /\ log' = log + 1
    /\ last' = Result("place_items_rollback", 0, TRUE, <<>>, Len(PlaceItemsRun(items).placed))
    /\ UNCHANGED <<containers, native, today, tasks>>

NextAtomic == ImportPlanner \/ PlaceItems \/ PlaceItemsCommitFails

SpecAtomic == Init /\ [][NextAtomic]_vars

\* C19: place_items commits atomically: either every change of the run, the
\* clearing of earlier placements included, reaches the store, or, when the
\* commit at the end of the run fails, the placements of the store are exactly
\* those before the call.
C19_AtomicCommit ==
    [][/\ last'.op = "place_items" => items' = PlaceItemsRun(items).its
       /\ last'.op = "place_items_rollback" => items' = items]_vars

----------------------------------------------------------------------------
\* The request to place item i in container ci at p would break an invariant:
\* the container holds capacity items already, or the box of the item at p
\* overlaps an item placed there
BreaksInvariant(i, ci, p) ==
    LET c == containers[ci]
        others == { k \in ItemIds \ {i} : items[k].is_placed /\ items[k].container_id = c.id }
    IN \/ Cardinality(others) >= c.capacity
       \/ \E k \in others : CheckCollision(p, Dims(items[i]), Pos(items[k]), Dims(items[k]))

ExplicitPositions == { p \in ManualPositions : p[1] >= 0 /\ p[2] >= 0 /\ p[3] >= 0 }

\* C20: a manual placement (POST /place, or POST /api/place with explicit
\* non-negative coordinates) is rejected, the item's placement unchanged, when
\* the container is at capacity or the box would overlap an item placed there.
C20_ManualRejected ==
    [][\A i \in ItemIds, ci \in DOMAIN containers, p \in ExplicitPositions :
           /\ BreaksInvariant(i, ci, p)
           /\ PlaceRequest(i, ci, p) \/ ApiPlaceRequest(i, ci, p)
           => ~last'.ok /\ items' = items]_vars

----------------------------------------------------------------------------
(* The action log: which requests append to it *)

\* POST /import/items with a one-row CSV for item id i: import_items_to_db
\* and the answer, no log_action
ImportItemsUnlogged(rows, max) ==
    \E i \in 1..Min2(Len(items) + 1, max), row \in rows :
        /\ items' = ImportItemsToDb(items, i, row)
        /\ native' = IF i \in DOMAIN native THEN [native EXCEPT ![i] = row.dims]
                     ELSE Append(native, row.dims)
        /\ last' = Result("import_items", i, TRUE, <<>>, 1)
        /\ UNCHANGED <<containers, log, today, tasks>>

LogItems == 2             \* rows of the items table

ImportLogged == ImportItems(PlannerRows, LogItems)

ImportUnlogged == ImportItemsUnlogged(PlannerRows, LogItems)

NextLog == ImportLogged \/ ImportUnlogged \/ PlaceItems \/ UseItem

SpecLog == Init /\ [][NextLog]_vars

\* C21: every request that changes the stored items (import, place_items,
\* repack, use) appends at least one entry to the action log, and none
\* removes an entry.
C21_MutationsLogged ==
    [][/\ items' # items => log' > log
       /\ log' >= log]_vars

----------------------------------------------------------------------------
\* C22: generate_rearrangement_plan returns a plan, of at most max_movements
\* moves, none of them to the container the item is in.
C22_BoundedMoves ==
    last.op = "rearrangement" =>
        /\ Len(last.ids) <= last.max_movements
        /\ \A n \in DOMAIN last.ids :
               /\ last.ids[n].to_container_id # last.ids[n].from_container_id
               /\ last.ids[n].from_container_id = items[last.ids[n].item_id].container_id

\* The plan is cut at max_movements: a movable item of a source container is
\* left where it is
C22_Witness ==
    /\ last.op = "rearrangement"
    /\ Len(last.ids) = last.max_movements
    /\ \E j \in CandidatesAt(last.priority_threshold) :
           \A n \in DOMAIN last.ids : last.ids[n].item_id # j

----------------------------------------------------------------------------
(* Two POST /api/place requests in flight.  api_place is an `async def`
   without an await: once the event loop of uvicorn.run(app) has entered the
   handler it runs it to its return before it enters another. *)

ConcurrentRequests == 2
ConcurrentItems == 2

\* A scheduler that enters a handler while another is between its statements
LoopShared(r) == TRUE

\* The event loop enters or resumes the handler r: no other handler is
\* between its capacity test and its write
LoopFree(r) == \A q \in DOMAIN tasks \ {r} : tasks[q].pc # "checked"

Task(i, ci, p) == [pc |-> "received", item |-> i, container |-> ci, position |-> p]

\* items_in_container >= container.capacity and item.container_id != container_id
AtCapacity(its, i, ci) ==
    /\ CountIn(its, containers[ci].id) >= containers[ci].capacity
    /\ its[i].container_id # containers[ci].id

\* POST /api/place, from the request to the capacity test
ApiPlaceChecked(r) ==
    /\ tasks[r].pc = "received"
    /\ LoopFree(r)
    /\ IF AtCapacity(items, tasks[r].item, tasks[r].container)
       THEN /\ tasks' = [tasks EXCEPT ![r].pc = "done"]
            /\ last' = Result("api_place", tasks[r].item, FALSE, <<>>, 0)
            /\ UNCHANGED <<containers, items, native, log, today>>
       ELSE /\ tasks' = [tasks EXCEPT ![r].pc = "checked"]
            /\ UNCHANGED <<containers, items, native, log, today, last>>

\* The position of the request, or the one the search finds
TaskPosition(t) ==
    IF t.position[1] < 0 \/ t.position[2] < 0 \/ t.position[3] < 0
    THEN AutoPosition(items[t.item], containers[t.container],
                      Rows(items, PlacedIn(items, containers[t.container].id)))
    ELSE t.position

TaskRefused(t) ==
    \/ TaskPosition(t) = <<None, None, None>>
    \/ t.position = TaskPosition(t) /\ OutOfBounds(items[t.item], containers[t.container], t.position)

\* POST /api/place, from the position to the commit and the log row
ApiPlaceWritten(r) ==
    /\ tasks[r].pc = "checked"
    /\ LoopFree(r)
    /\ tasks' = [tasks EXCEPT ![r].pc = "done"]
    /\ IF TaskRefused(tasks[r])
       THEN /\ last' = Result("api_place", tasks[r].item, FALSE, <<>>, 0)
            /\ UNCHANGED <<containers, items, native, log, today>>
       ELSE /\ items' = [items EXCEPT ![tasks[r].item] =
                            ManualPlace(@, containers[tasks[r].container], TaskPosition(tasks[r]))]
            /\ log' = log + 1
            /\ last' = Result("api_place", tasks[r].item, TRUE, <<>>, 1)
            /\ UNCHANGED <<containers, native, today>>

ConcurrentPlaces == { <<0, <<None, None, None>> >>, <<1, <<0, 0, 0>> >>, <<2, <<0, 0, 0>> >> }

ConcurrentPositions == { <<None, None, None>>, <<0, 0, 0>>, <<0, 0, 15>> }

\* A store within its capacities, and two requests received
InitConcurrent ==
    /\ containers = PlannerFleet
    /\ native = [k \in 1..ConcurrentItems |-> <<30, 15, 15>>]
    /\ \E pl \in [1..ConcurrentItems -> ConcurrentPlaces] :
           items = [k \in 1..ConcurrentItems |-> StoredItem(native[k], pl[k])]
    /\ \A k \in DOMAIN containers : CountIn(items, containers[k].id) <= containers[k].capacity
    /\ log = 0
    /\ today = 0
    /\ last = NoResult
    /\ \E i \in [1..ConcurrentRequests -> 1..ConcurrentItems],
          ci \in [1..ConcurrentRequests -> 1..2],
          p \in [1..ConcurrentRequests -> ConcurrentPositions] :
           tasks = [r \in 1..ConcurrentRequests |-> Task(i[r], ci[r], p[r])]

ApiPlaceCheck == \E r \in DOMAIN tasks : ApiPlaceChecked(r)

ApiPlaceWrite == \E r \in DOMAIN tasks : ApiPlaceWritten(r)

NextConcurrent == ApiPlaceCheck \/ ApiPlaceWrite

SpecConcurrent == InitConcurrent /\ [][NextConcurrent]_vars

----------------------------------------------------------------------------
(* The position search on its own: _find_position_with_rotation for an item
   of the store, a container, and the items placed in it *)

SearchResult(i, ci, prioritize_access, found) ==
    [op |-> "find_position", item |-> i, ok |-> found.found, ids |-> <<>>, total |-> 0,
     container |-> ci, prioritize_access |-> prioritize_access,
     position |-> found.position, orientation |-> found.orientation]

Existing(i, ci) ==
    Rows(items, SelectSeq(PlacedIn(items, containers[ci].id), LAMBDA k : k # i))

FindPosition ==
    \E i \in ItemIds, ci \in DOMAIN containers, prioritize_access \in BOOLEAN :
        /\ last' = SearchResult(i, ci, prioritize_access,
                                FindPositionWithRotation(containers[ci], items[i],
                                                         Existing(i, ci), prioritize_access))
        /\ UNCHANGED <<containers, items, native, log, today, tasks>>

SearchItems == 2          \* rows of the items table

\* A 1 m cube that holds two items
SearchFleet == << ContainerRow("B1", 30, 30, 30, 2, "storage", "B") >>

SearchShapes == { <<15, 30, 30>>, <<15, 15, 15>> }

SearchPlaces == { <<None, None, None>>, <<0, 0, 0>>, <<15, 0, 0>>, <<15, 15, 15>> }

SearchItem(d, p) ==
    IF p = <<None, None, None>> THEN NewItem(d, 1, DefaultPriority, NoZone, None, None)
    ELSE ManualPlace(NewItem(d, 1, DefaultPriority, NoZone, None, None), SearchFleet[1], p)

\* A store as imports and POST /place requests leave it
InitSearch ==
    /\ containers = SearchFleet
    /\ native \in [1..SearchItems -> SearchShapes]
    /\ \E p \in [1..SearchItems -> SearchPlaces] :
           items = [k \in 1..SearchItems |-> SearchItem(native[k], p[k])]
    /\ log = 0
    /\ today = 0
    /\ tasks = <<>>
    /\ last = NoResult

NextSearch == FindPosition

SpecSearch == InitSearch /\ [][NextSearch]_vars

\* Every point the loops of the search generate for an orientation with slack
\* (mx, my, mz)
CandidateGrid(mx, my, mz, xs, ys, zs) ==
    IF xs <= DenseSteps /\ ys <= DenseSteps /\ zs <= DenseSteps
    THEN { <<GridPos(x, xs, mx), GridPos(y, ys, my), GridPos(z, zs, mz)>> :
               x \in 0..(xs - 1), y \in 0..(ys - 1), z \in 0..(zs - 1) }
    ELSE Range(SparsePositions(mx, my, mz))

\* An orientation of item i fits container c and has a free point on its grid
FreeOnGrid(i, ci) ==
    LET c == containers[ci]
        rot == GetItemRotations(items[i])
        large == c.width + c.height + c.depth > 3 * LargeAvg
    IN \E k \in DOMAIN rot :
           LET o == rot[k]
               mx == c.width - o[1]  my == c.height - o[2]  mz == c.depth - o[3]
           IN /\ mx >= 0 /\ my >= 0 /\ mz >= 0
              /\ \E p \in CandidateGrid(mx, my, mz, NumSteps(mx, large), NumSteps(my, large),
                                        NumSteps(mz, large)) :
                     IsFree(p, o, Existing(i, ci))

\* C24: for a container below capacity the search returns a position
\* whenever a point of the candidate grid of an orientation that fits is free
\* of every existing item, and none only when every such point collides.
C24_SearchComplete ==
    last.op = "find_position"
    /\ Len(Existing(last.item, last.container)) < containers[last.container].capacity
    => (last.ok <=> FreeOnGrid(last.item, last.container))

----------------------------------------------------------------------------
(* Waste identification on its own: items that expire today, a usage limit of 0 *)

IdentifyItems == 2        \* rows of the items table

\* Rows with a date of expiry past, today's and to come, with a usage limit of 0 and of 1
IdentifyRows ==
    { CsvRow(<<30, 15, 15>>, 1, None, NoZone, e, l) :
        e \in { None, 0, 1, 2 }, l \in { None, 0, 1 } }

ImportIdentify == ImportItems(IdentifyRows, IdentifyItems)

NextIdentify == ImportIdentify \/ UseItem \/ IdentifyWaste \/ ManageWaste

SpecIdentify == InitLatch /\ [][NextIdentify]_vars

\* The waste classifier of the specification
IsWasteByRule(it) ==
    \/ it.expiry_date # None /\ it.expiry_date <= today
    \/ it.usage_limit # None /\ it.usage_limit > 0 /\ it.usage_count >= it.usage_limit

\* C25: waste identification (GET /waste/identify, GET /api/waste/identify,
\* manage_waste) marks an item that is not waste if and only if its date of
\* expiry is set and not after today, or its usage limit is set, positive and
\* reached; a usage limit of 0 never marks.
C25_IdentifiedByRule ==
    [][last'.op \in { "identify_waste", "manage_waste" } =>
         \A k \in ItemIds :
             ~items[k].is_waste => (items'[k].is_waste <=> IsWasteByRule(items[k]))]_vars

----------------------------------------------------------------------------
\* C26: simulate_time changes the usage_count of the items of the usage plan
\* that are not waste and have a usage limit, by the planned increment, and of
\* no other item: not of a waste item, not of an item without usage limit, not
\* of an item the plan does not name.
C26_UsageFrame ==
    [][last'.op = "simulate_time" =>
         \A k \in ItemIds :
             IF /\ k \in Range(last'.items_used)
                /\ ~items[k].is_waste
                /\ items[k].usage_limit # None
             THEN items'[k].usage_count - items[k].usage_count \in SimulatedUses
             ELSE items'[k].usage_count = items[k].usage_count]_vars


----------------------------------------------------------------------------
(* POST /api/rearrangement-recommendation: the accessibility analysis of   *)
(* PlacementService.suggest_rearrangement                                  *)

HighPriority == 70        \* a high-priority item has a priority above this
PriorityGap == 20         \* a blocking item is lower by more than this
FewItems == 3             \* containers with fewer items are not analysed

\* _items_overlap_xy: the (x, y) projections share interior points
ItemsOverlapXY(item1, item2) ==
    LET no_overlap_x == \/ item1.position_x + item1.width <= item2.position_x
                        \/ item2.position_x + item2.width <= item1.position_x
        no_overlap_y == \/ item1.position_y + item1.height <= item2.position_y
                        \/ item2.position_y + item2.height <= item1.position_y
    IN  ~(no_overlap_x \/ no_overlap_y)

\* blocking_items of high_item among the placed items of its container
BlockingItems(its, h) ==
    SelectSeq(Ids(its), LAMBDA k : /\ SameContainer(its[h], its[k])
                                   /\ its[k].position_z > its[h].position_z
                                   /\ its[k].priority < its[h].priority - PriorityGap
                                   /\ ItemsOverlapXY(its[h], its[k]))

\* accessibility_issues over the storage containers that hold at least
\* FewItems placed items: one entry per high-priority item with a non-empty
\* blocking_items
AccessibilityIssues(cs, its) ==
    LET analysed(h) ==
            /\ its[h].is_placed
            /\ its[h].priority > HighPriority
            /\ \E c \in DOMAIN cs : /\ cs[c].id = its[h].container_id
                                    /\ cs[c].container_type # "waste"
                                    /\ CountIn(its, cs[c].id) >= FewItems
    IN  [h \in {k \in DOMAIN its : analysed(k) /\ BlockingItems(its, k) # <<>>}
           |-> BlockingItems(its, h)]

\* The analysis reads the store; the request is logged
SuggestRearrangement ==
    /\ log < MaxLog
    /\ log' = log + 1
    /\ last' = [op |-> "suggest_rearrangement",
                accessibility_issues |-> AccessibilityIssues(containers, items)]
    /\ UNCHANGED <<containers, items, native, today, tasks>>

SuggestItems == 3         \* rows of the items table

SuggestFleet == << ContainerRow("A1", 60, 30, 30, 3, "storage", "A") >>

SuggestPlaces == { <<0, 0, 0>>, <<0, 0, 15>>, <<30, 0, 0>>, <<30, 0, 15>>, <<15, 0, 15>> }

SuggestPriorities == {95, 50}

\* A store of non-overlapping placements as imports and POST /place leave it
InitSuggest ==
    /\ containers = SuggestFleet
    /\ native \in [1..SuggestItems -> RetrieveShapes]
    /\ \E pl \in [1..SuggestItems -> SuggestPlaces], pr \in [1..SuggestItems -> SuggestPriorities] :
           items = [k \in 1..SuggestItems |->
                       ManualPlace(NewItem(native[k], 1, pr[k], NoZone, None, None),
                                   SuggestFleet[1], pl[k])]
    /\ \A i, j \in 1..SuggestItems : i < j => ~Overlap(items[i], items[j])
    /\ \A i \in 1..SuggestItems : Inside(items[i])
    /\ log = MaxLog - RetrieveRequests
    /\ today = 0
    /\ tasks = <<>>
    /\ last = NoResult

NextSuggest == SuggestRearrangement \/ Retrieve

SpecSuggest == InitSuggest /\ [][NextSuggest]_vars

\* C27: the blocking direction is the same everywhere: get_retrieval_path and
\* the accessibility analysis of suggest_rearrangement treat an item J as
\* blocking an item I only when J.position_z < I.position_z and their (x, y)
\* projections overlap.
C27_SameDirection ==
    /\ last.op = "retrieve" /\ last.ok =>
           \A n \in DOMAIN last.ids :
               /\ items[last.ids[n]].position_z < items[last.item].position_z
               /\ XYOverlap(items[last.item], items[last.ids[n]])
    /\ last.op = "suggest_rearrangement" =>
           \A h \in DOMAIN last.accessibility_issues :
               \A n \in DOMAIN last.accessibility_issues[h] :
                   LET j == last.accessibility_issues[h][n]
                   IN  /\ items[j].position_z < items[h].position_z
                       /\ XYOverlap(items[h], items[j])


----------------------------------------------------------------------------
(* Consecutive calls of simulate_time *)

NextClock == ImportLatch \/ SimulateTime

SpecClock == InitLatch /\ [][NextClock]_vars

\* C28: simulate_time does not persist its clock advance: of two consecutive
\* calls with the same days and empty usage plans, the second marks no
\* additional item and its items_expired is empty, so the waste flags are
\* those a single call leaves.
C28_ClockNotPersisted ==
    [][/\ last.op = "simulate_time" /\ last.items_used = <<>>
       /\ last'.op = "simulate_time" /\ last'.items_used = <<>>
       /\ last'.days_simulated = last.days_simulated
       => /\ today' = today
          /\ last'.items_expired = <<>>
          /\ last'.ids = <<>>
          /\ \A k \in ItemIds : items'[k].is_waste = items[k].is_waste]_vars

\* A call with an empty plan has found nothing to mark, although an item that
\* expires within its days is in the store: an earlier call marked it
C28_Witness ==
    /\ last.op = "simulate_time" /\ last.items_used = <<>>
    /\ last.items_expired = <<>>
    /\ \E k \in ItemIds : /\ items[k].is_waste
                          /\ items[k].expiry_date > today
                          /\ items[k].expiry_date <= today + last.days_simulated


----------------------------------------------------------------------------
(* The plan of generate_waste_placement_plan against the store it was made for *)

\* One waste container that holds two items
ReturnFleet == << ContainerRow("WST1", 30, 30, 30, 2, "waste", "Waste") >>

InitReturn ==
    /\ containers = ReturnFleet
    /\ items = <<>>
    /\ native = <<>>
    /\ log = 0
    /\ today = 0
    /\ tasks = <<>>
    /\ last = NoResult

NextReturn == ImportWaste \/ UseItem \/ WastePlan \/ ExecuteWastePlan

SpecReturn == InitReturn /\ [][NextReturn]_vars

\* The entries of the last plan that assign a container
Assigned(cid) ==
    { n \in DOMAIN last.ids : last.ids[n].container_id = cid }

\* The items already placed in a container that the plan does not move
StayingIn(cid) ==
    { k \in ItemIds : /\ items[k].is_placed /\ items[k].container_id = cid
                      /\ \A n \in DOMAIN last.ids : last.ids[n].item_id # k }

\* C29: within one plan of generate_waste_placement_plan the boxes assigned to
\* the same waste container overlap neither each other nor the items already
\* placed there, and the items assigned to a container plus the items already
\* placed in it do not exceed its capacity.
C29_PlanFits ==
    last.op = "waste_plan" =>
        \A c \in DOMAIN containers :
            /\ \A m, n \in Assigned(containers[c].id) :
                   m < n => ~CheckCollision(last.ids[m].position, last.ids[m].orientation,
                                            last.ids[n].position, last.ids[n].orientation)
            /\ \A n \in Assigned(containers[c].id), k \in StayingIn(containers[c].id) :
                   ~CheckCollision(last.ids[n].position, last.ids[n].orientation,
                                   Pos(items[k]), Dims(items[k]))
            /\ Cardinality(Assigned(containers[c].id)) + Cardinality(StayingIn(containers[c].id))
                   <= containers[c].capacity


----------------------------------------------------------------------------
(* POST /api/placement: a list of items to place, or the planner *)

MaxAttempts == 1000       \* max_attempts of the position scan

\* The scan of the bulk placement from position p: x, then y, then z, in
\* steps of 0.5; it gives up past the last level or after MaxAttempts tries
RECURSIVE BulkScan(_, _, _, _, _)
BulkScan(it, c, occupied_spaces, p, attempt) ==
    IF attempt >= MaxAttempts THEN <<None, None, None>>
    ELSE IF ~OutOfBounds(it, c, p) /\ FreeAt(it, p, occupied_spaces) THEN p
    ELSE IF p[1] + AutoStep + it.width <= c.width
         THEN BulkScan(it, c, occupied_spaces, <<p[1] + AutoStep, p[2], p[3]>>, attempt + 1)
    ELSE IF p[2] + AutoStep + it.height <= c.height
         THEN BulkScan(it, c, occupied_spaces, <<0, p[2] + AutoStep, p[3]>>, attempt + 1)
    ELSE IF p[3] + AutoStep + it.depth <= c.depth
         THEN BulkScan(it, c, occupied_spaces, <<0, 0, p[3] + AutoStep>>, attempt + 1)
    ELSE <<None, None, None>>

BulkEntry(id, containerId, from_container, auto_position) ==
    [id |-> id, containerId |-> containerId, from_container |-> from_container,
     auto_position |-> auto_position]

\* One entry of items_list; st = [its, logged, placed_items, failed_items].
\* The removal from the source container is logged before the position is
\* sought; the five placement fields are written together.
BulkPlace(st, e, is_rearrangement) ==
    LET failed == [st EXCEPT !.failed_items = Append(@, e.id)]
        known == \E k \in DOMAIN containers : containers[k].id = e.containerId
        c == containers[ContainerIdx(e.containerId)]
        it == st.its[e.id]
        removal == IF /\ is_rearrangement /\ e.from_container # NoContainer
                      /\ e.from_container # e.containerId
                      /\ it.container_id = e.from_container
                   THEN 1 ELSE 0
        container_items ==
            Rows(st.its, SelectSeq(PlacedIn(st.its, e.containerId), LAMBDA k : k # e.id))
        p == IF e.auto_position THEN BulkScan(it, c, container_items, <<0, 0, 0>>, 0)
             ELSE <<0, 0, 0>>
    IN  IF e.id = 0 \/ e.containerId = NoContainer THEN st
        ELSE IF e.id \notin DOMAIN st.its \/ ~known THEN failed
        ELSE IF /\ CountIn(st.its, e.containerId) >= c.capacity
                /\ (~is_rearrangement \/ e.from_container # e.containerId)
             THEN failed
        ELSE IF p = <<None, None, None>>
             THEN [failed EXCEPT !.logged = @ + removal]
        ELSE [st EXCEPT !.its[e.id] = ManualPlace(it, c, p),
                        !.logged = @ + removal + 1,
                        !.placed_items = Append(@, e.id)]

RECURSIVE BulkLoop(_, _, _)
BulkLoop(st, items_list, is_rearrangement) ==
    IF items_list = <<>> THEN st
    ELSE BulkLoop(BulkPlace(st, Head(items_list), is_rearrangement),
                  Tail(items_list), is_rearrangement)

BulkPlacement(items_list, is_rearrangement) ==
    LET st == BulkLoop([its |-> items, logged |-> 0, placed_items |-> <<>>,
                        failed_items |-> <<>>], items_list, is_rearrangement)
    IN  /\ log + st.logged <= MaxLog
        /\ items' = st.its
        /\ log' = log + st.logged
        /\ last' = Result("api_placement", 0, st.placed_items # <<>>, st.placed_items,
                          Len(st.failed_items))
        /\ UNCHANGED <<containers, native, today, tasks>>

BulkLen == 2              \* entries of one items_list

\* Entries for the items of the store and one unknown id, for the containers
\* and one unknown id; one request sends the same from_container and
\* auto_position with every entry, and a from_container only when it is a
\* rearrangement (it is read in no other case)
BulkEntries(from_container, auto_position) ==
    { BulkEntry(i, cid, from_container, auto_position) :
          i \in 1..(Len(items) + 1),
          cid \in {containers[k].id : k \in DOMAIN containers} \cup {"X1"} }

\* POST /api/placement; without items it runs the planner
ApiPlacement ==
    \/ Planned("api_placement", PlaceItemsRun(items))
    \/ \E n \in 1..BulkLen, is_rearrangement, auto_position \in BOOLEAN :
           \E from_container \in IF is_rearrangement THEN {containers[1].id}
                                  ELSE {NoContainer} :
               \E items_list \in [1..n -> BulkEntries(from_container, auto_position)] :
                   BulkPlacement(items_list, is_rearrangement)

RecordItems == 2          \* rows of the items table

RecordRows == { CsvRow(<<15, 30, 30>>, 1, None, NoZone, None, 1) }

ImportRecord == ImportItems(RecordRows, RecordItems)

\* POST /place and POST /api/place at the origin, or (api) at a position to find
PlaceRecord ==
    \E i \in 0..Len(items), ci \in DOMAIN containers :
        \/ PlaceRequest(i, ci, <<0, 0, 0>>)
        \/ \E p \in { <<0, 0, 0>>, <<None, None, None>> } : ApiPlaceRequest(i, ci, p)

RecordFleet ==
    << ContainerRow("A1", 60, 30, 30, 2, "storage", "A"),
       ContainerRow("WST1", 30, 30, 30, 1, "waste", "Waste") >>

InitRecord ==
    /\ containers = RecordFleet
    /\ items = <<>>
    /\ native = <<>>
    /\ log = 0
    /\ today = 0
    /\ tasks = <<>>
    /\ last = NoResult

NextRecord ==
    \/ ImportRecord \/ PlaceItems \/ Repack \/ UseItem \/ PlaceRecord
    \/ ApiPlacement \/ CompleteUndocking \/ WastePlan \/ ExecuteWastePlan

SpecRecord == InitRecord /\ [][NextRecord]_vars

\* C30: in every state reachable through import, place_items, repack, use,
\* manual placement, bulk /api/placement, undocking completion and the
\* execution of a plan of generate_waste_placement_plan, an item is placed
\* if and only if its container_id is set, if and only if its position_x,
\* position_y and position_z are all set.
C30_PlacementRecord ==
    \A i \in ItemIds :
        /\ items[i].is_placed <=> items[i].container_id # NoContainer
        /\ items[i].is_placed <=> /\ items[i].position_x # None
                                  /\ items[i].position_y # None
                                  /\ items[i].position_z # None

\* A bulk request has placed an item while another item, taken out by a use,
\* is unplaced
C30_Witness ==
    /\ last.op = "api_placement" /\ last.ids # <<>>
    /\ \A n \in DOMAIN last.ids : items[last.ids[n]].is_placed
    /\ \E j \in ItemIds : ~items[j].is_placed /\ items[j].last_retrieved # None
====
